---- MODULE Spec2Model ----
(***************************************************************************)
(* Plugin execution subsystem of RUSTY-AI (crates/plugins):                *)
(*   - WasmRuntime        instance pool, active-instance counter, epoch    *)
(*   - InstanceHandle     checked-out instance, call_function, Drop        *)
(*   - PluginLoader       discovery, checksum, load / unload / reload      *)
(*   - PluginSandbox      validate_plugin (policy layer)                   *)
(*   - PluginCommunication  channels, send_request / handle_response       *)
(*   - WasmPluginManager  plugin map behind a read-write lock              *)
(* Every subsystem has its own next-state relation over the shared         *)
(* variables; the subsystems a relation does not touch stay unchanged.     *)
(***************************************************************************)
EXTENDS Integers, Sequences, FiniteSets, TLC

(***************************************************************************)
(* Bounds of the model.                                                    *)
(***************************************************************************)
NumTasks == 2
max_instances == 1
MaxCreated == 2
MaxUsage == 2
MaxTime == 1
MaxEpoch == 1
MaxImports == 2
MaxByte == 1
MaxFileLen == 2
MaxPlugins == 2
loader_max_instances == 2
MaxUuid == 3
MaxQueue == 2
MaxRoutes == 1
NumMgTasks == 3
MaxMgInstances == 2
MaxClock == 15
MaxFileOps == 6
MaxNetOps == 3
MaxExecutions == 2

MaxCalls == 3

NumCoreTasks == 2

Tasks == 1..NumTasks
Modules == {"m1", "m2"}

(***************************************************************************)
(* Program constants.  The clock of the model counts units of 30 minutes.  *)
(***************************************************************************)
ReuseCeiling == 1000
MaxAgeUnits == 2
StaleUnits == 1
ImportLimit == 100

VARIABLES
    instance_pool,      \* WasmRuntime.instance_pool : Seq of PooledInstance
    active_instances,   \* WasmRuntime.active_instances
    epoch,              \* the engine's epoch counter (EpochHandle)
    now,                \* the clock (Instant::now), in units of 30 minutes
    next_instance,      \* identity given to the next instantiated instance
    task,               \* the concurrent callers of the runtime
    released,           \* the instance of the handle released last, until the
                        \* next get_instance or cleanup_pool
    policy,             \* PluginSandbox.policy
    candidate,          \* the (module, metadata) handed to validate_plugin
    verdict,            \* what validate_plugin returned for the candidate
    files,              \* the plugin directory: path -> file contents
    plugin_registry,    \* PluginLoader.plugin_registry.plugins
    loaded_plugins,     \* PluginLoader.loaded_plugins
    next_plugin,        \* the next fresh plugin id (uuid)
    loader_runtime,     \* PluginLoader.runtime
    ld_result,          \* the loader's last operation and its result
    channels,           \* PluginCommunication.channels: plugin -> queued messages
    routes,             \* MessageRouter.routes
    broadcast_subscribers,  \* MessageRouter.broadcast_subscribers
    calls,              \* the send_request call of each sender
    next_uuid,          \* the next fresh message id (uuid)
    bus_result,         \* what the last send_message or broadcast_message returned
    plugins,            \* WasmPluginManager.plugins: plugin id -> plugin instance
    mg_task,            \* the calls on the manager, one per caller
    rw_queue,           \* the callers waiting for the RwLock of the plugin map
    next_mg_instance,   \* the next plugin instance the manager creates
    cleaned,            \* the plugin instances whose cleanup has run
    resource_monitor,   \* PluginSandbox.resource_monitor
    execution_stats,    \* PluginSandbox.execution_stats
    clock,              \* the sandbox's clock (Instant::now), in seconds
    mon_result,         \* the sandbox monitor's last operation and its result
    wasm_plugin,        \* one plugin object behind the WasmPlugin trait
    pl_result,          \* the plugin's last operation and what it returned
    core_plugins,       \* PluginManager.plugins (crates/core): the ids it holds
    core_configs,       \* PluginManager.configs (crates/core): the ids it holds
    core_task,          \* the calls on the core PluginManager, one per caller
    core_queue          \* the waiters of the plugins lock and of the configs lock

rtVars == <<instance_pool, active_instances, epoch, now, next_instance, task, released>>

sbVars == <<policy, candidate, verdict>>

ldVars == <<files, plugin_registry, loaded_plugins, next_plugin, loader_runtime, ld_result>>

busVars == <<channels, routes, broadcast_subscribers, calls, next_uuid, bus_result>>

mgVars == <<plugins, mg_task, rw_queue, next_mg_instance, cleaned>>

monVars == <<resource_monitor, execution_stats, clock, mon_result>>

plVars == <<wasm_plugin, pl_result>>

coreVars == <<core_plugins, core_configs, core_task, core_queue>>

vars == <<rtVars, sbVars, ldVars, busVars, mgVars, monVars, plVars, coreVars>>

\* What the operations of one subsystem leave alone: the other subsystems.
rtOthers == <<sbVars, ldVars, busVars, mgVars, monVars, plVars, coreVars>>

sbOthers == <<rtVars, ldVars, busVars, mgVars, monVars, plVars, coreVars>>

ldOthers == <<rtVars, sbVars, busVars, mgVars, monVars, plVars, coreVars>>

busOthers == <<rtVars, sbVars, ldVars, mgVars, monVars, plVars, coreVars>>

mgOthers == <<rtVars, sbVars, ldVars, busVars, monVars, plVars, coreVars>>

\* The monitor shares the sandbox with validate_plugin: its operations leave
\* the policy alone as well.
monOthers == <<rtVars, sbVars, ldVars, busVars, mgVars, plVars, coreVars>>

plOthers == <<rtVars, sbVars, ldVars, busVars, mgVars, monVars, coreVars>>

coreOthers == <<rtVars, sbVars, ldVars, busVars, mgVars, monVars, plVars>>

(***************************************************************************)
(* PooledInstance.  id is the identity of the (Store, Instance) pair;      *)
(* deadline is the epoch at which the store traps; timed_out records that  *)
(* a call_function on this instance ended with the timeout error.          *)
(***************************************************************************)
NoInstance ==
    [id |-> 0, module_id |-> "", usage_count |-> 0, last_used |-> 0,
     deadline |-> 0, timed_out |-> FALSE]

NewPooledInstanceLate(id, m, t, e) ==
    [id |-> id, module_id |-> m, usage_count |-> 1, last_used |-> t,
     deadline |-> e + 2, timed_out |-> FALSE]

NewPooledInstance(id, m, t, e) ==
    [id |-> id, module_id |-> m, usage_count |-> 1, last_used |-> t,
     deadline |-> e + 1, timed_out |-> FALSE]

IdleTask ==
    [pc |-> "idle", module |-> "", handle |-> NoInstance, result |-> "none"]

RuntimeInit ==
    /\ instance_pool = << >>
    /\ active_instances = 0
    /\ epoch = 0
    /\ now = 0
    /\ next_instance = 1
    /\ task = [t \in Tasks |-> IdleTask]
    /\ released = NoInstance

(***************************************************************************)
(* try_get_pooled_instance: position of the first pooled instance of the   *)
(* module (0 when there is none), its removal, and the reuse bookkeeping.  *)
(***************************************************************************)
PoolPosition(pool, m) ==
    IF \E i \in 1..Len(pool) : pool[i].module_id = m
    THEN CHOOSE i \in 1..Len(pool) :
            /\ pool[i].module_id = m
            /\ \A j \in 1..(i - 1) : pool[j].module_id # m
    ELSE 0

PoolRemoveKeeps(pool, pos) == pool

PoolRemove(pool, pos) ==
    [i \in 1..(Len(pool) - 1) |-> IF i < pos THEN pool[i] ELSE pool[i + 1]]

Reuse(inst, t) ==
    [inst EXCEPT !.usage_count = @ + 1, !.last_used = t]

(***************************************************************************)
(* create_new_instance: the limit check made under the first lock.         *)
(***************************************************************************)
LimitReached(active, cap) == active >= cap

(***************************************************************************)
(* return_instance: the pooling decision, the sweep and the decrement.     *)
(***************************************************************************)
Elapsed(inst, t) == t - inst.last_used

ShouldPool(inst, t) ==
    /\ inst.usage_count < ReuseCeiling
    /\ Elapsed(inst, t) < MaxAgeUnits

Retain(pool, t) ==
    SelectSeq(pool, LAMBDA inst : Elapsed(inst, t) < StaleUnits)

PoolAfterReturn(pool, inst, t) ==
    IF ShouldPool(inst, t)
    THEN LET pushed == Append(pool, inst)
         IN  IF Len(pushed) > max_instances \div 2
             THEN Retain(pushed, t)
             ELSE pushed
    ELSE pool

SaturatingSub(n) == IF n > 0 THEN n - 1 ELSE 0

(***************************************************************************)
(* get_instance, first lock section: try_get_pooled_instance.              *)
(***************************************************************************)
GetInstance(t, m) ==
    /\ task[t].pc = "idle"
    /\ LET pos == PoolPosition(instance_pool, m)
       IN  IF pos # 0
           THEN /\ instance_pool[pos].usage_count < MaxUsage
                /\ instance_pool' = PoolRemove(instance_pool, pos)
                /\ task' = [task EXCEPT ![t] =
                       [@ EXCEPT !.pc = "holding",
                                 !.handle = Reuse(instance_pool[pos], now),
                                 !.result = "ok"]]
           ELSE /\ instance_pool' = instance_pool
                /\ task' = [task EXCEPT ![t] =
                       [@ EXCEPT !.pc = "check", !.module = m,
                                 !.result = "none"]]
    /\ released' = NoInstance
    /\ UNCHANGED <<active_instances, epoch, now, next_instance>>
    /\ UNCHANGED rtOthers

(***************************************************************************)
(* create_new_instance, the limit check (runtime.rs 152-159).              *)
(***************************************************************************)
CreateCheck(t) ==
    /\ task[t].pc = "check"
    /\ task' = [task EXCEPT ![t] =
           IF LimitReached(active_instances, max_instances)
           THEN [@ EXCEPT !.pc = "idle", !.module = "", !.result = "capacity"]
           ELSE [@ EXCEPT !.pc = "instantiate"]]
    /\ UNCHANGED <<instance_pool, active_instances, epoch, now, next_instance, released>>
    /\ UNCHANGED rtOthers

(***************************************************************************)
(* create_new_instance, compile + instantiate + count (runtime.rs 161-199).*)
(* compiles = FALSE is a module the engine rejects.                        *)
(***************************************************************************)
CreateInstantiate(t, compiles) ==
    /\ task[t].pc = "instantiate"
    /\ IF compiles
       THEN /\ next_instance <= MaxCreated
            /\ task' = [task EXCEPT ![t] =
                   [@ EXCEPT !.pc = "holding", !.module = "", !.result = "ok",
                             !.handle = NewPooledInstance(next_instance,
                                            task[t].module, now, epoch)]]
            /\ next_instance' = next_instance + 1
            /\ active_instances' = active_instances + 1
       ELSE /\ task' = [task EXCEPT ![t] =
                   [@ EXCEPT !.pc = "idle", !.module = "", !.result = "compile_failed"]]
            /\ UNCHANGED <<next_instance, active_instances>>
    /\ UNCHANGED <<instance_pool, epoch, now, released>>
    /\ UNCHANGED rtOthers

(***************************************************************************)
(* InstanceHandle::call_function.  A store whose epoch deadline has been   *)
(* reached traps at the function's entry check-point.                      *)
(***************************************************************************)
\* The store's epoch deadline, set once at instantiation to one tick after
\* the epoch of that moment, has been reached.
DeadlineReached(inst, e) == e >= inst.deadline

CallStart(t) ==
    /\ task[t].pc = "holding"
    /\ task[t].handle # NoInstance
    /\ task' = [task EXCEPT ![t] =
           IF DeadlineReached(task[t].handle, epoch)
           THEN [@ EXCEPT !.result = "failed"]
           ELSE [@ EXCEPT !.pc = "executing", !.result = "none"]]
    /\ UNCHANGED <<instance_pool, active_instances, epoch, now, next_instance, released>>
    /\ UNCHANGED rtOthers

CallReturn(t) ==
    /\ task[t].pc = "executing"
    /\ task' = [task EXCEPT ![t] = [@ EXCEPT !.pc = "holding", !.result = "value"]]
    /\ UNCHANGED <<instance_pool, active_instances, epoch, now, next_instance, released>>
    /\ UNCHANGED rtOthers

\* The executing function reaches a check-point (a function entry or a loop
\* header) with its store's deadline reached: it traps and call_function
\* returns the error.  A check-point before the deadline changes nothing.
CallCheckPoint(t) ==
    /\ task[t].pc = "executing"
    /\ DeadlineReached(task[t].handle, epoch)
    /\ task' = [task EXCEPT ![t] = [@ EXCEPT !.pc = "holding", !.result = "interrupted"]]
    /\ UNCHANGED <<instance_pool, active_instances, epoch, now, next_instance, released>>
    /\ UNCHANGED rtOthers

CallFail(t) ==
    /\ task[t].pc = "executing"
    /\ task' = [task EXCEPT ![t] = [@ EXCEPT !.pc = "holding", !.result = "failed"]]
    /\ UNCHANGED <<instance_pool, active_instances, epoch, now, next_instance, released>>
    /\ UNCHANGED rtOthers

CallTimeout(t) ==
    /\ task[t].pc = "executing"
    /\ epoch < MaxEpoch
    /\ epoch' = epoch + 1
    /\ task' = [task EXCEPT ![t] =
           [@ EXCEPT !.pc = "holding", !.result = "timeout",
                     !.handle = [@ EXCEPT !.timed_out = TRUE]]]
    /\ UNCHANGED <<instance_pool, active_instances, now, next_instance, released>>
    /\ UNCHANGED rtOthers

(***************************************************************************)
(* impl Drop for InstanceHandle: the instance is taken out of the handle   *)
(* and destroyed; nothing else is touched.                                 *)
(***************************************************************************)
DropHandle(t) ==
    /\ task[t].pc = "holding"
    /\ task' = [task EXCEPT ![t] =
           [@ EXCEPT !.pc = "idle",
                     !.handle = NoInstance, !.result = "dropped"]]
    /\ released' = task[t].handle
    /\ UNCHANGED <<instance_pool, active_instances, epoch, now, next_instance>>
    /\ UNCHANGED rtOthers

(***************************************************************************)
(* WasmRuntime::return_instance, called with the instance of a handle.     *)
(***************************************************************************)
ReturnInstance(t) ==
    /\ task[t].pc = "holding"
    /\ instance_pool' = PoolAfterReturn(instance_pool, task[t].handle, now)
    /\ active_instances' = SaturatingSub(active_instances)
    /\ task' = [task EXCEPT ![t] =
           [@ EXCEPT !.pc = "idle",
                     !.handle = NoInstance, !.result = "returned"]]
    /\ released' = task[t].handle
    /\ UNCHANGED <<epoch, now, next_instance>>
    /\ UNCHANGED rtOthers

InterruptAll ==
    /\ epoch < MaxEpoch
    /\ epoch' = epoch + 1
    /\ UNCHANGED <<instance_pool, active_instances, now, next_instance, task, released>>
    /\ UNCHANGED rtOthers

CleanupPool ==
    /\ instance_pool' = Retain(instance_pool, now)
    /\ released' = NoInstance
    /\ UNCHANGED <<active_instances, epoch, now, next_instance, task>>
    /\ UNCHANGED rtOthers

Tick ==
    /\ now < MaxTime
    /\ now' = now + 1
    /\ UNCHANGED <<instance_pool, active_instances, epoch, next_instance, task, released>>
    /\ UNCHANGED rtOthers

RuntimeNext ==
    \/ \E t \in Tasks, m \in Modules : GetInstance(t, m)
    \/ \E t \in Tasks : CreateCheck(t)
    \/ \E t \in Tasks, compiles \in BOOLEAN : CreateInstantiate(t, compiles)
    \/ \E t \in Tasks : CallStart(t)
    \/ \E t \in Tasks : CallReturn(t)
    \/ \E t \in Tasks : CallFail(t)
    \/ \E t \in Tasks : CallCheckPoint(t)
    \/ \E t \in Tasks : CallTimeout(t)
    \/ \E t \in Tasks : DropHandle(t)
    \/ \E t \in Tasks : ReturnInstance(t)
    \/ InterruptAll
    \/ CleanupPool
    \/ Tick

(***************************************************************************)
(* PluginSandbox (crates/plugins/src/security.rs): the validation of a     *)
(* module and its metadata against the sandbox's policy.  A module is what *)
(* the validator reads of it: whether it compiles, and its imports in      *)
(* order, each a (module, name) pair.                                       *)
(***************************************************************************)
WasiNamespace == "wasi_snapshot_preview1"

Import(ns, name) == [module |-> ns, name |-> name]

ImportUniverse ==
    {Import(WasiNamespace, n) :
        n \in {"fd_read", "sock_send", "random_get", "proc_exit", "fd_seek"}}
    \cup {Import("env", "host_log"), Import("wasi_unstable", "fd_write"),
          Import("custom", "run")}

ImportLists == UNION {[1..n -> ImportUniverse] : n \in 0..MaxImports}

Capabilities ==
    {"FileSystem", "Network", "EnvironmentVariables", "CommandLineArguments",
     "Random", "Clock", "Exit"}

CapabilityOf(name) ==
    CASE name \in {"fd_read", "fd_write", "fd_close", "path_open"} -> "FileSystem"
      [] name \in {"sock_accept", "sock_recv", "sock_send"} -> "Network"
      [] name \in {"environ_get", "environ_sizes_get"} -> "EnvironmentVariables"
      [] name \in {"args_get", "args_sizes_get"} -> "CommandLineArguments"
      [] name = "random_get" -> "Random"
      [] name = "clock_time_get" -> "Clock"
      [] name = "proc_exit" -> "Exit"
      [] OTHER -> "Unknown"

DefaultPolicy ==
    [allowed_wasi_capabilities |-> {"Random", "Clock"},
     max_file_descriptors |-> 5, max_network_connections |-> 2,
     disable_dangerous_features |-> TRUE, require_signature |-> FALSE,
     trusted_authors |-> {}]

Untrusted ==
    [allowed_wasi_capabilities |-> {"Random", "Clock"},
     max_file_descriptors |-> 0, max_network_connections |-> 0,
     disable_dangerous_features |-> TRUE, require_signature |-> TRUE,
     trusted_authors |-> {}]

SemiTrusted ==
    [allowed_wasi_capabilities |-> {"Random", "Clock", "FileSystem"},
     max_file_descriptors |-> 5, max_network_connections |-> 0,
     disable_dangerous_features |-> TRUE, require_signature |-> FALSE,
     trusted_authors |-> {}]

Trusted ==
    [allowed_wasi_capabilities |->
        {"Random", "Clock", "FileSystem", "Network", "EnvironmentVariables"},
     max_file_descriptors |-> 20, max_network_connections |-> 10,
     disable_dangerous_features |-> FALSE, require_signature |-> FALSE,
     trusted_authors |-> {}]

Profiles == {DefaultPolicy, Untrusted, SemiTrusted, Trusted}

Authors == {"Unknown", "alice"}

\* SecurityPolicy is plain data with public fields: the profiles, and the
\* profiles with their flags and trusted authors set otherwise.
PolicySet ==
    {[p EXCEPT !.disable_dangerous_features = d, !.require_signature = s,
               !.trusted_authors = a] :
        p \in Profiles, d \in BOOLEAN, s \in BOOLEAN, a \in {{}, {"alice"}}}

ProhibitedCapabilities == {"system_admin", "unrestricted_network", "arbitrary_code"}

CapabilityLists == {{"general"}, {"general", "system_admin"}}

WasmModules == [valid : BOOLEAN, imports : ImportLists]

NoCandidate ==
    [module |-> [valid |-> FALSE, imports |-> <<>>],
     author |-> "Unknown", capabilities |-> {}]

Candidates ==
    {[module |-> m, author |-> a, capabilities |-> c] :
        m \in WasmModules, a \in Authors, c \in CapabilityLists}

ValidateWasiImport(p, name) ==
    LET cap == CapabilityOf(name)
    IN  IF cap = "Unknown" THEN "ok"
        ELSE IF cap \notin p.allowed_wasi_capabilities THEN "capability_denied"
        ELSE "ok"

IsAllowedImportModule(ns) == ns \in {"wasi_snapshot_preview1", "wasi_unstable"}

CheckImport(p, imp) ==
    IF imp.module = WasiNamespace THEN ValidateWasiImport(p, imp.name)
    ELSE IF imp.module = "env" THEN "ok"
    ELSE IF ~IsAllowedImportModule(imp.module) THEN "prohibited_import"
    ELSE "ok"

\* The imports are checked in order; the first failure is returned.
CheckProhibitedFeatures(p, imports) ==
    LET bad == {i \in 1..Len(imports) : CheckImport(p, imports[i]) # "ok"}
    IN  IF bad = {} THEN "ok"
        ELSE CheckImport(p, imports[CHOOSE i \in bad : \A j \in bad : i <= j])

ValidateImports(imports) ==
    IF Len(imports) > ImportLimit THEN "too_many_imports" ELSE "ok"

FeatureGate(p) == p.disable_dangerous_features

ValidateWasmModule(p, mod) ==
    IF ~mod.valid THEN "invalid_module"
    ELSE LET features == IF FeatureGate(p)
                         THEN CheckProhibitedFeatures(p, mod.imports)
                         ELSE "ok"
         IN  IF features # "ok" THEN features
             ELSE ValidateImports(mod.imports)

ValidateCapabilities(caps) ==
    IF caps \cap ProhibitedCapabilities # {} THEN "prohibited_capability" ELSE "ok"

AuthorRejectedNever(p, author) == FALSE

AuthorRejected(p, author) ==
    p.require_signature /\ author \notin p.trusted_authors

PluginVerdict(p, c) ==
    IF AuthorRejected(p, c.author)
    THEN "untrusted_author"
    ELSE LET wasm == ValidateWasmModule(p, c.module)
         IN  IF wasm # "ok" THEN wasm
             ELSE ValidateCapabilities(c.capabilities)

SandboxInit ==
    /\ policy \in Profiles
    /\ candidate \in Candidates
    /\ verdict = "none"

SandboxAtRest ==
    /\ policy = DefaultPolicy
    /\ candidate = NoCandidate
    /\ verdict = "none"

ValidatePlugin ==
    /\ verdict' = PluginVerdict(policy, candidate)
    /\ UNCHANGED <<policy, candidate>>
    /\ UNCHANGED sbOthers

UpdatePolicy(p) ==
    /\ policy' = p
    /\ verdict' = "none"
    /\ UNCHANGED candidate
    /\ UNCHANGED sbOthers

SandboxNext ==
    \/ ValidatePlugin
    \/ \E p \in PolicySet : UpdatePolicy(p)

(***************************************************************************)
(* PluginLoader (crates/plugins/src/loader.rs).  Its methods take          *)
(* &mut self, so each is one step.  A plugin file is a sequence of bytes:  *)
(* it compiles when it starts with the magic byte, and each byte after     *)
(* that declares one import.  The loader owns a runtime of its own.        *)
(***************************************************************************)
Bytes == 0..MaxByte

FileContents == UNION {[1..n -> Bytes] : n \in 0..MaxFileLen}

MagicByte == 1

RootFile == [dir |-> "root", ext |-> "wasm"]

SubFile == [dir |-> "sub", ext |-> "wat"]

Paths == {RootFile, SubFile}

PluginIds == 1..MaxPlugins

ImportOfByte(b) ==
    IF b = 0 THEN Import(WasiNamespace, "fd_read")
    ELSE IF b = 1 THEN Import("env", "host_log")
    ELSE Import(WasiNamespace, "random_get")

\* What wasmtime::Module::new makes of the bytes.
Decode(bytes) ==
    IF Len(bytes) = 0 \/ bytes[1] # MagicByte
    THEN [valid |-> FALSE, imports |-> <<>>]
    ELSE [valid |-> TRUE,
          imports |-> [i \in 1..(Len(bytes) - 1) |-> ImportOfByte(bytes[i + 1])]]

\* The linker holds the WASI functions and nothing else.
Links(mod) ==
    \A i \in 1..Len(mod.imports) : mod.imports[i].module = WasiNamespace

\* SHA-256, as a digest without collisions on the files of the model.
RECURSIVE CalculateChecksum(_)
CalculateChecksum(bytes) ==
    IF bytes = <<>> THEN 1
    ELSE CalculateChecksum(SubSeq(bytes, 1, Len(bytes) - 1)) * (MaxByte + 2)
            + bytes[Len(bytes)] + 1

ChecksumMismatchNever(current, expected) == FALSE

ChecksumMismatch(current, expected) == current # expected

DefaultLimits ==
    [max_memory_mb |-> 64, max_execution_time_s |-> 30, max_file_descriptors |-> 10,
     max_network_connections |-> 5, cpu_time_limit_s |-> 10, max_fuel |-> 1000000]

CustomLimits == [DefaultLimits EXCEPT !.max_memory_mb = 16, !.max_fuel = 1000]

\* Option<ResourceLimits>: the empty set is None.
LimitOptions == {{}, {DefaultLimits}, {CustomLimits}}

UnwrapOrDefault(opt) == IF opt = {} THEN DefaultLimits ELSE CHOOSE l \in opt : TRUE

DiscoveryConfigs ==
    [recursive : BOOLEAN, extensions : {{"wasm", "wat"}, {"wasm"}},
     max_file_size : {1, MaxFileLen}]

NoResult == [op |-> "none", id |-> 0, result |-> "none"]

EmptyRuntime == [instance_pool |-> <<>>, active_instances |-> 0]

LoaderInit ==
    /\ files \in [Paths -> {<<MagicByte>>}]
    /\ plugin_registry = <<>>
    /\ loaded_plugins = <<>>
    /\ next_plugin = 1
    /\ loader_runtime = EmptyRuntime
    /\ ld_result = NoResult

IsPluginFile(path, config) == path.ext \in config.extensions

\* The files the directory walk reaches and takes for plugin files.
Visited(config) ==
    {p \in DOMAIN files :
        (config.recursive \/ p.dir = "root") /\ IsPluginFile(p, config)}

\* analyze_plugin_file passes over a file above max_file_size.
Analyzed(config) ==
    {p \in Visited(config) : ~(Len(files[p]) > config.max_file_size)}

PluginEntry(path, bytes) ==
    [file_path |-> path, checksum |-> CalculateChecksum(bytes),
     author |-> "Unknown", capabilities |-> {"general"}, status |-> "Available"]

AddPlugin(registry, id, entry) ==
    [i \in DOMAIN registry \cup {id} |-> IF i = id THEN entry ELSE registry[i]]

UpdateStatusSkipped(registry, id, status) == registry

UpdateStatus(registry, id, status) ==
    [i \in DOMAIN registry |->
        IF i = id THEN [registry[i] EXCEPT !.status = status] ELSE registry[i]]

Without(f, id) == [i \in DOMAIN f \ {id} |-> f[i]]

\* WasmRuntime::get_instance as the loader calls it, start to end, followed
\* by the drop of the handle at the end of load_plugin.
LoaderGetInstance(rt, id, bytes) ==
    LET pos == PoolPosition(rt.instance_pool, id)
    IN  IF pos # 0
        THEN [result |-> "ok",
              runtime |-> [rt EXCEPT !.instance_pool = PoolRemove(@, pos)]]
        ELSE IF LimitReached(rt.active_instances, loader_max_instances)
        THEN [result |-> "capacity", runtime |-> rt]
        ELSE IF ~Decode(bytes).valid
        THEN [result |-> "compile_failed", runtime |-> rt]
        ELSE IF ~Links(Decode(bytes))
        THEN [result |-> "instantiate_failed", runtime |-> rt]
        ELSE [result |-> "ok",
              runtime |-> [rt EXCEPT !.active_instances = @ + 1]]

Failed(reason, registry, loaded, rt) ==
    [result |-> reason, registry |-> registry, loaded |-> loaded, runtime |-> rt]

AlreadyLoadedNever(loaded, id) == FALSE

AlreadyLoaded(loaded, id) == id \in DOMAIN loaded

\* load_plugin on the loader state (registry, loaded, rt).  For a plugin
\* that is already loaded it warns and returns Ok(()): "already_loaded".
LoadOutcome(registry, loaded, rt, id, limits) ==
    IF id \notin DOMAIN registry THEN Failed("not_found", registry, loaded, rt)
    ELSE IF AlreadyLoaded(loaded, id)
    THEN Failed("already_loaded", registry, loaded, rt)
    ELSE IF registry[id].file_path \notin DOMAIN files
    THEN Failed("read_failed", registry, loaded, rt)
    ELSE
        LET wasm_bytes == files[registry[id].file_path]
            current_checksum == CalculateChecksum(wasm_bytes)
            got == LoaderGetInstance(rt, id, wasm_bytes)
        IN  IF ChecksumMismatch(current_checksum, registry[id].checksum)
            THEN Failed("checksum_mismatch", registry, loaded, rt)
            ELSE IF got.result # "ok"
            THEN Failed(got.result, registry, loaded, got.runtime)
            ELSE [result |-> "ok",
                  registry |-> UpdateStatus(registry, id, "Loaded"),
                  loaded |-> AddPlugin(loaded, id,
                                [file_path |-> registry[id].file_path,
                                 checksum |-> current_checksum,
                                 size |-> Len(wasm_bytes),
                                 limits |-> UnwrapOrDefault(limits)]),
                  runtime |-> got.runtime]

\* unload_plugin on the loader state; it always returns Ok.
UnloadOutcome(registry, loaded, rt, id) ==
    IF id \in DOMAIN loaded
    THEN [result |-> "ok", registry |-> UpdateStatus(registry, id, "Available"),
          loaded |-> Without(loaded, id), runtime |-> rt]
    ELSE Failed("ok", registry, loaded, rt)

Becomes(op, id, out) ==
    /\ plugin_registry' = out.registry
    /\ loaded_plugins' = out.loaded
    /\ loader_runtime' = out.runtime
    /\ ld_result' = [op |-> op, id |-> id, result |-> out.result]

FreshIdsReused(next, n) == 1..n

\* The ids extract_plugin_metadata gives to n analyzed files: one new
\* version-4 UUID each, none of them an id handed out before.
FreshIds(next, n) == next..(next + n - 1)

DiscoverPlugins(config) ==
    LET found == Analyzed(config)
        ids == FreshIds(next_plugin, Cardinality(found))
    IN  /\ next_plugin + Cardinality(found) - 1 <= MaxPlugins
        /\ IF \E p \in found : ~Decode(files[p]).valid
           THEN /\ ld_result' = [op |-> "discover_plugins", id |-> 0,
                                 result |-> "invalid_module"]
                /\ UNCHANGED <<plugin_registry, next_plugin>>
           ELSE \E uuid \in [found -> ids] :
                /\ \A p, q \in found : uuid[p] = uuid[q] => p = q
                /\ plugin_registry' =
                       [i \in DOMAIN plugin_registry \cup ids |->
                           IF i \in ids
                           THEN LET p == CHOOSE q \in found : uuid[q] = i
                                IN  PluginEntry(p, files[p])
                           ELSE plugin_registry[i]]
                /\ next_plugin' = next_plugin + Cardinality(found)
                /\ ld_result' = [op |-> "discover_plugins", id |-> 0,
                                 result |-> "ok"]
        /\ UNCHANGED <<files, loaded_plugins, loader_runtime>>
        /\ UNCHANGED ldOthers

LoadPlugin(id, limits) ==
    /\ Becomes("load_plugin", id,
               LoadOutcome(plugin_registry, loaded_plugins, loader_runtime, id, limits))
    /\ UNCHANGED <<files, next_plugin>>
    /\ UNCHANGED ldOthers

UnloadPlugin(id) ==
    /\ Becomes("unload_plugin", id,
               UnloadOutcome(plugin_registry, loaded_plugins, loader_runtime, id))
    /\ UNCHANGED <<files, next_plugin>>
    /\ UNCHANGED ldOthers

ReloadLimitsNone(loaded, id) == {}

\* The limits reload_plugin reads before it unloads: those of the loaded
\* record, None for a plugin that is not loaded.
ReloadLimits(loaded, id) ==
    IF id \in DOMAIN loaded THEN {loaded[id].limits} ELSE {}

ReloadPlugin(id) ==
    LET limits == ReloadLimits(loaded_plugins, id)
        un == UnloadOutcome(plugin_registry, loaded_plugins, loader_runtime, id)
    IN  /\ Becomes("reload_plugin", id,
                   LoadOutcome(un.registry, un.loaded, un.runtime, id, limits))
        /\ UNCHANGED <<files, next_plugin>>
        /\ UNCHANGED ldOthers

\* The environment rewrites or removes a file of the plugin directory.
AlterFile(path, bytes) ==
    /\ files' = [p \in DOMAIN files \cup {path} |->
                    IF p = path THEN bytes ELSE files[p]]
    /\ UNCHANGED <<plugin_registry, loaded_plugins, next_plugin, loader_runtime, ld_result>>
    /\ UNCHANGED ldOthers

RemoveFile(path) ==
    /\ path \in DOMAIN files
    /\ files' = Without(files, path)
    /\ UNCHANGED <<plugin_registry, loaded_plugins, next_plugin, loader_runtime, ld_result>>
    /\ UNCHANGED ldOthers

LoaderNext ==
    \/ \E config \in DiscoveryConfigs : DiscoverPlugins(config)
    \/ \E id \in PluginIds, limits \in LimitOptions : LoadPlugin(id, limits)
    \/ \E id \in PluginIds : UnloadPlugin(id)
    \/ \E id \in PluginIds : ReloadPlugin(id)
    \/ \E path \in Paths, bytes \in FileContents : AlterFile(path, bytes)
    \/ \E path \in Paths : RemoveFile(path)

(***************************************************************************)
(* PluginCommunication (crates/plugins/src/communication.rs).  Each method *)
(* takes &self; send_request is three steps (the waiter is stored, the     *)
(* request is delivered, the response is awaited), the other methods are   *)
(* one step under the channels lock.                                        *)
(***************************************************************************)
BusPlugins == {"p1", "p2"}

Uuids == 1..MaxUuid

MessageTypes == {"Event"}

PluginMessage(id, sender, recipient, type, reply_to) ==
    [id |-> id, sender |-> sender, recipient |-> recipient,
     message_type |-> type, reply_to |-> reply_to]

\* A oneshot receiver: open while its sender lives, closed once the sender
\* is dropped without a value, or carrying the response that was sent.
OpenRx == [state |-> "open", response |-> 0]

ClosedRx == [state |-> "closed", response |-> 0]

IdleCall ==
    [pc |-> "idle", request_id |-> 0, recipient |-> "",
     rx |-> OpenRx, result |-> "none", response |-> 0,
     answered |-> FALSE, foreign |-> FALSE]

NoBusResult == [op |-> "none", recipient |-> "", result |-> "none"]

BusInit ==
    /\ bus_result = NoBusResult
    /\ channels = <<>>
    /\ routes = <<>>
    /\ broadcast_subscribers = <<>>
    /\ calls = [sender \in BusPlugins |-> IdleCall]
    /\ next_uuid = 1

EnqueueFront(chans, p, message) == [chans EXCEPT ![p] = <<message>> \o @]

\* sender.send(message) on the channel of p: the message joins the end of
\* the unbounded queue.
Enqueue(chans, p, message) == [chans EXCEPT ![p] = Append(@, message)]

DeliverMessageAnywhere(chans, message) ==
    IF message.recipient \in DOMAIN chans
    THEN [chans EXCEPT ![message.recipient] = Append(@, message)]
    ELSE [p \in DOMAIN chans |-> Append(chans[p], message)]

\* deliver_message for a message with a recipient: an unknown recipient is
\* logged and the message is gone.
DeliverMessage(chans, message) ==
    IF message.recipient \in DOMAIN chans
    THEN Enqueue(chans, message.recipient, message)
    ELSE chans

RECURSIVE BroadcastToSubscribers(_, _, _)
BroadcastToSubscribers(chans, subscribers, message) ==
    IF subscribers = <<>> THEN chans
    ELSE BroadcastToSubscribers(
            IF Head(subscribers) \in DOMAIN chans
            THEN Enqueue(chans, Head(subscribers), message)
            ELSE chans,
            Tail(subscribers), message)

HasRoom(chans) == \A p \in DOMAIN chans : Len(chans[p]) < MaxQueue

\* store_pending_request takes the sender of the oneshot channel and keeps
\* it nowhere: the sender is dropped when it returns.
StorePendingRequest(request_id) == ClosedRx

ResolveAny(rx, request_id) == [state |-> "value", response |-> request_id]

\* handle_response on the waiter of a call in flight.
Resolve(rx, request_id) == rx

\* The match on timeout(timeout, response_rx).
AwaitOutcome(rx) ==
    IF rx.state = "value" THEN [result |-> "ok", response |-> rx.response]
    ELSE IF rx.state = "closed" THEN [result |-> "channel_closed", response |-> 0]
    ELSE [result |-> "timeout", response |-> 0]

InFlight(call) == call.pc \in {"stored", "delivered"}

RegisterPlugin(p) ==
    /\ channels' = [q \in DOMAIN channels \cup {p} |->
                       IF q = p THEN <<>> ELSE channels[q]]
    /\ UNCHANGED <<routes, broadcast_subscribers, calls, next_uuid>>
    /\ bus_result' = NoBusResult
    /\ UNCHANGED busOthers

RemoveRoutesOfSource(rts, p) == [q \in DOMAIN rts \ {p} |-> rts[q]]

RemoveRoutes(rts, p) ==
    [q \in DOMAIN rts \ {p} |-> SelectSeq(rts[q], LAMBDA dest : dest # p)]

UnregisterPlugin(p) ==
    /\ channels' = Without(channels, p)
    /\ routes' = RemoveRoutes(routes, p)
    /\ UNCHANGED <<broadcast_subscribers, calls, next_uuid>>
    /\ bus_result' = NoBusResult
    /\ UNCHANGED busOthers

SendMessage(sender, recipient, type) ==
    /\ next_uuid <= MaxUuid
    /\ HasRoom(channels)
    /\ channels' = DeliverMessage(channels,
                       PluginMessage(next_uuid, sender, recipient, type, 0))
    /\ next_uuid' = next_uuid + 1
    /\ UNCHANGED <<routes, broadcast_subscribers, calls>>
    /\ bus_result' = [op |-> "send_message", recipient |-> recipient, result |-> "ok"]
    /\ UNCHANGED busOthers

\* broadcast_message: the subscriber list is read, then every subscriber's
\* channel is looked up under the channels lock.
BroadcastMessage(sender, type) ==
    /\ next_uuid <= MaxUuid
    /\ HasRoom(channels)
    /\ channels' = BroadcastToSubscribers(channels, broadcast_subscribers,
                       PluginMessage(next_uuid, sender, "", type, 0))
    /\ next_uuid' = next_uuid + 1
    /\ UNCHANGED <<routes, broadcast_subscribers, calls>>
    /\ bus_result' = [op |-> "broadcast_message", recipient |-> "", result |-> "ok"]
    /\ UNCHANGED busOthers

SendRequestStore(sender, recipient) ==
    /\ calls[sender].pc \in {"idle", "done"}
    /\ next_uuid <= MaxUuid
    /\ calls' = [calls EXCEPT ![sender] =
           [IdleCall EXCEPT !.pc = "stored", !.request_id = next_uuid,
                            !.recipient = recipient,
                            !.rx = StorePendingRequest(next_uuid)]]
    /\ next_uuid' = next_uuid + 1
    /\ UNCHANGED <<channels, routes, broadcast_subscribers>>
    /\ bus_result' = NoBusResult
    /\ UNCHANGED busOthers

SendRequestDeliver(sender) ==
    /\ calls[sender].pc = "stored"
    /\ HasRoom(channels)
    /\ channels' = DeliverMessage(channels,
                       PluginMessage(calls[sender].request_id, sender,
                                     calls[sender].recipient, "Request",
                                     calls[sender].request_id))
    /\ calls' = [calls EXCEPT ![sender].pc = "delivered"]
    /\ UNCHANGED <<routes, broadcast_subscribers, next_uuid>>
    /\ bus_result' = NoBusResult
    /\ UNCHANGED busOthers

SendRequestAwait(sender) ==
    /\ calls[sender].pc = "delivered"
    /\ calls' = [calls EXCEPT ![sender] =
           [@ EXCEPT !.pc = "done",
                     !.result = AwaitOutcome(calls[sender].rx).result,
                     !.response = AwaitOutcome(calls[sender].rx).response]]
    /\ UNCHANGED <<channels, routes, broadcast_subscribers, next_uuid>>
    /\ bus_result' = NoBusResult
    /\ UNCHANGED busOthers

\* handle_response(response) with response.request_id = request_id.  The
\* calls in flight note whether the response was theirs.
HandleResponse(request_id) ==
    /\ calls' = [sender \in BusPlugins |->
           IF InFlight(calls[sender])
           THEN [calls[sender] EXCEPT
                    !.rx = Resolve(@, request_id),
                    !.answered = @ \/ request_id = calls[sender].request_id,
                    !.foreign = @ \/ request_id # calls[sender].request_id]
           ELSE calls[sender]]
    /\ UNCHANGED <<channels, routes, broadcast_subscribers, next_uuid>>
    /\ bus_result' = NoBusResult
    /\ UNCHANGED busOthers

\* The plugin takes the next message from its receiver.
Receive(p) ==
    /\ p \in DOMAIN channels
    /\ channels[p] # <<>>
    /\ channels' = [channels EXCEPT ![p] = Tail(@)]
    /\ UNCHANGED <<routes, broadcast_subscribers, calls, next_uuid>>
    /\ bus_result' = NoBusResult
    /\ UNCHANGED busOthers

AddRoute(from, to) ==
    /\ \A p \in DOMAIN routes : Len(routes[p]) < MaxRoutes
    /\ routes' = [p \in DOMAIN routes \cup {from} |->
                     IF p = from
                     THEN Append(IF from \in DOMAIN routes THEN routes[from] ELSE <<>>, to)
                     ELSE routes[p]]
    /\ UNCHANGED <<channels, broadcast_subscribers, calls, next_uuid>>
    /\ bus_result' = NoBusResult
    /\ UNCHANGED busOthers

RemoveRoute(from, to) ==
    /\ routes' = [p \in DOMAIN routes |->
                     IF p = from THEN SelectSeq(routes[p], LAMBDA dest : dest # to)
                     ELSE routes[p]]
    /\ UNCHANGED <<channels, broadcast_subscribers, calls, next_uuid>>
    /\ bus_result' = NoBusResult
    /\ UNCHANGED busOthers

SubscribeToBroadcasts(p) ==
    /\ broadcast_subscribers' =
           IF \E i \in 1..Len(broadcast_subscribers) : broadcast_subscribers[i] = p
           THEN broadcast_subscribers
           ELSE Append(broadcast_subscribers, p)
    /\ UNCHANGED <<channels, routes, calls, next_uuid>>
    /\ bus_result' = NoBusResult
    /\ UNCHANGED busOthers

UnsubscribeFromBroadcasts(p) ==
    /\ broadcast_subscribers' = SelectSeq(broadcast_subscribers, LAMBDA id : id # p)
    /\ UNCHANGED <<channels, routes, calls, next_uuid>>
    /\ bus_result' = NoBusResult
    /\ UNCHANGED busOthers

\* Messages, requests and responses.
BusNext ==
    \/ \E p \in BusPlugins : RegisterPlugin(p)
    \/ \E p \in BusPlugins : UnregisterPlugin(p)
    \/ \E s \in BusPlugins, r \in BusPlugins, ty \in MessageTypes : SendMessage(s, r, ty)
    \/ \E s \in BusPlugins, ty \in MessageTypes : BroadcastMessage(s, ty)
    \/ \E s \in BusPlugins, r \in BusPlugins : SendRequestStore(s, r)
    \/ \E s \in BusPlugins : SendRequestDeliver(s)
    \/ \E s \in BusPlugins : SendRequestAwait(s)
    \/ \E id \in Uuids : HandleResponse(id)
    \/ \E p \in BusPlugins : Receive(p)
    \/ \E p \in BusPlugins : SubscribeToBroadcasts(p)

\* Messages under changing routes and subscriptions.
RouterNext ==
    \/ \E p \in BusPlugins : RegisterPlugin(p)
    \/ \E p \in BusPlugins : UnregisterPlugin(p)
    \/ \E s \in BusPlugins, r \in BusPlugins, ty \in MessageTypes : SendMessage(s, r, ty)
    \/ \E s \in BusPlugins, ty \in MessageTypes : BroadcastMessage(s, ty)
    \/ \E p \in BusPlugins : Receive(p)
    \/ \E from \in BusPlugins, to \in BusPlugins : AddRoute(from, to)
    \/ \E from \in BusPlugins, to \in BusPlugins : RemoveRoute(from, to)
    \/ \E p \in BusPlugins : SubscribeToBroadcasts(p)
    \/ \E p \in BusPlugins : UnsubscribeFromBroadcasts(p)

(***************************************************************************)
(* WasmPluginManager (crates/plugins/src/lib.rs).  The plugin map is       *)
(* behind a tokio RwLock, which serves its waiters in arrival order, and   *)
(* every plugin is behind a Mutex of its own.  Who holds a lock follows    *)
(* from where the calls are; the lock's queue of waiters is state.         *)
(***************************************************************************)
MgTasks == 1..NumMgTasks

MgPlugins == {"A", "B"}

IdleMgTask ==
    [pc |-> "idle", op |-> "none", id |-> "", inst |-> 0, todo |-> {},
     result |-> "none"]

ManagerInit ==
    /\ plugins = <<>>
    /\ mg_task = [t \in MgTasks |-> IdleMgTask]
    /\ rw_queue = <<>>
    /\ next_mg_instance = 1
    /\ cleaned = {}

WritersHeld ==
    {t \in MgTasks :
        \/ mg_task[t].pc = "has_write"
        \/ mg_task[t].op = "unload_plugin" /\ mg_task[t].pc \notin {"wait_write"}}

\* The calls that hold the write lock on the plugin map: load_plugin from
\* its insert, unload_plugin to its end.
Writers ==
    {t \in MgTasks :
        \/ mg_task[t].pc = "has_write"
        \/ mg_task[t].op = "unload_plugin" /\ mg_task[t].pc \in {"lock_plugin", "cleaning"}}

\* The calls that hold a read lock: execute_plugin and health_check_all, to
\* their end.
Readers ==
    {t \in MgTasks :
        \/ mg_task[t].pc = "has_read"
        \/ mg_task[t].op \in {"execute_plugin", "health_check_all"}
               /\ mg_task[t].pc \in {"lock_plugin", "executing", "checking"}}

\* The call that holds the Mutex of plugin instance inst, if any.
MutexHolders(inst) ==
    {t \in MgTasks :
        mg_task[t].inst = inst /\ mg_task[t].pc \in {"executing", "checking", "cleaning"}}

Enter(t, op, id, pc) ==
    /\ mg_task[t].pc = "idle"
    /\ mg_task' = [mg_task EXCEPT ![t] =
           [IdleMgTask EXCEPT !.pc = pc, !.op = op, !.id = id]]
    /\ rw_queue' = Append(rw_queue, t)

Return(t, result) ==
    mg_task' = [mg_task EXCEPT ![t] =
        [IdleMgTask EXCEPT !.op = mg_task[t].op, !.id = mg_task[t].id,
                           !.result = result]]

\* load_plugin up to self.plugins.write(): the module is validated and the
\* plugin instance is created with no lock held.
LoadPluginStart(t, id, valid) ==
    /\ mg_task[t].pc = "idle"
    /\ IF valid
       THEN /\ next_mg_instance <= MaxMgInstances
            /\ mg_task' = [mg_task EXCEPT ![t] =
                   [IdleMgTask EXCEPT !.pc = "wait_write", !.op = "load_plugin",
                                      !.id = id, !.inst = next_mg_instance]]
            /\ rw_queue' = Append(rw_queue, t)
            /\ next_mg_instance' = next_mg_instance + 1
       ELSE /\ mg_task' = [mg_task EXCEPT ![t] =
                   [IdleMgTask EXCEPT !.op = "load_plugin", !.id = id,
                                      !.result = "invalid_module"]]
            /\ UNCHANGED <<rw_queue, next_mg_instance>>
    /\ UNCHANGED <<plugins, cleaned>>
    /\ UNCHANGED mgOthers

\* The RwLock hands itself to the first waiter when that waiter can have it.
GrantWrite(t) ==
    /\ mg_task[t].pc = "wait_write"
    /\ rw_queue # <<>> /\ Head(rw_queue) = t
    /\ Writers = {} /\ Readers = {}
    /\ mg_task' = [mg_task EXCEPT ![t].pc = "has_write"]
    /\ rw_queue' = Tail(rw_queue)
    /\ UNCHANGED <<plugins, next_mg_instance, cleaned>>
    /\ UNCHANGED mgOthers

GrantRead(t) ==
    /\ mg_task[t].pc = "wait_read"
    /\ rw_queue # <<>> /\ Head(rw_queue) = t
    /\ Writers = {}
    /\ mg_task' = [mg_task EXCEPT ![t] =
           [@ EXCEPT !.pc = "has_read",
                     !.todo = IF mg_task[t].op = "health_check_all"
                               THEN DOMAIN plugins ELSE {}]]
    /\ rw_queue' = Tail(rw_queue)
    /\ UNCHANGED <<plugins, next_mg_instance, cleaned>>
    /\ UNCHANGED mgOthers

\* plugins.insert(id, plugin): an entry under the same id is replaced.
InsertPlugin(map, id, inst) == AddPlugin(map, id, inst)

LoadPluginInsert(t) ==
    /\ mg_task[t].pc = "has_write" /\ mg_task[t].op = "load_plugin"
    /\ plugins' = InsertPlugin(plugins, mg_task[t].id, mg_task[t].inst)
    /\ Return(t, "ok")
    /\ UNCHANGED <<rw_queue, next_mg_instance, cleaned>>
    /\ UNCHANGED mgOthers

ExecutePluginStart(t, id) ==
    /\ Enter(t, "execute_plugin", id, "wait_read")
    /\ UNCHANGED <<plugins, next_mg_instance, cleaned>>
    /\ UNCHANGED mgOthers

ExecutePluginLookup(t) ==
    /\ mg_task[t].pc = "has_read" /\ mg_task[t].op = "execute_plugin"
    /\ IF mg_task[t].id \in DOMAIN plugins
       THEN mg_task' = [mg_task EXCEPT ![t] =
                [@ EXCEPT !.pc = "lock_plugin", !.inst = plugins[mg_task[t].id]]]
       ELSE Return(t, "not_found")
    /\ UNCHANGED <<plugins, rw_queue, next_mg_instance, cleaned>>
    /\ UNCHANGED mgOthers

\* plugin.lock().await, by execute_plugin, unload_plugin or health_check_all.
LockPlugin(t) ==
    /\ mg_task[t].pc = "lock_plugin"
    /\ MutexHolders(mg_task[t].inst) = {}
    /\ mg_task' = [mg_task EXCEPT ![t].pc =
           IF mg_task[t].op = "execute_plugin" THEN "executing"
           ELSE IF mg_task[t].op = "unload_plugin" THEN "cleaning"
           ELSE "checking"]
    /\ UNCHANGED <<plugins, rw_queue, next_mg_instance, cleaned>>
    /\ UNCHANGED mgOthers

\* The plugin's function returns, with a result or an error.
ExecutePluginFinish(t, ok) ==
    /\ mg_task[t].pc = "executing"
    /\ Return(t, IF ok THEN "ok" ELSE "error")
    /\ UNCHANGED <<plugins, rw_queue, next_mg_instance, cleaned>>
    /\ UNCHANGED mgOthers

\* max_execution_time elapses first.
ExecutePluginTimeout(t) ==
    /\ mg_task[t].pc = "executing"
    /\ Return(t, "timeout")
    /\ UNCHANGED <<plugins, rw_queue, next_mg_instance, cleaned>>
    /\ UNCHANGED mgOthers

UnloadPluginStart(t, id) ==
    /\ Enter(t, "unload_plugin", id, "wait_write")
    /\ UNCHANGED <<plugins, next_mg_instance, cleaned>>
    /\ UNCHANGED mgOthers

UnloadPluginRemove(t) ==
    /\ mg_task[t].pc = "has_write" /\ mg_task[t].op = "unload_plugin"
    /\ IF mg_task[t].id \in DOMAIN plugins
       THEN /\ plugins' = Without(plugins, mg_task[t].id)
            /\ mg_task' = [mg_task EXCEPT ![t] =
                   [@ EXCEPT !.pc = "lock_plugin", !.inst = plugins[mg_task[t].id]]]
       ELSE /\ Return(t, "ok")
            /\ UNCHANGED plugins
    /\ UNCHANGED <<rw_queue, next_mg_instance, cleaned>>
    /\ UNCHANGED mgOthers

UnloadPluginCleanup(t, ok) ==
    /\ mg_task[t].pc = "cleaning"
    /\ cleaned' = cleaned \cup {mg_task[t].inst}
    /\ Return(t, IF ok THEN "ok" ELSE "cleanup_failed")
    /\ UNCHANGED <<plugins, rw_queue, next_mg_instance>>
    /\ UNCHANGED mgOthers

HealthCheckAllStart(t) ==
    /\ Enter(t, "health_check_all", "", "wait_read")
    /\ UNCHANGED <<plugins, next_mg_instance, cleaned>>
    /\ UNCHANGED mgOthers

\* The loop over the plugins: the next plugin, or the end of the call.
HealthCheckAllNext(t) ==
    /\ mg_task[t].pc = "has_read" /\ mg_task[t].op = "health_check_all"
    /\ IF mg_task[t].todo = {}
       THEN Return(t, "ok")
       ELSE \E id \in mg_task[t].todo :
                mg_task' = [mg_task EXCEPT ![t] =
                    [@ EXCEPT !.pc = "lock_plugin", !.id = id, !.inst = plugins[id]]]
    /\ UNCHANGED <<plugins, rw_queue, next_mg_instance, cleaned>>
    /\ UNCHANGED mgOthers

HealthCheckOne(t) ==
    /\ mg_task[t].pc = "checking"
    /\ mg_task' = [mg_task EXCEPT ![t] =
           [@ EXCEPT !.pc = "has_read", !.todo = @ \ {mg_task[t].id},
                     !.id = "", !.inst = 0]]
    /\ UNCHANGED <<plugins, rw_queue, next_mg_instance, cleaned>>
    /\ UNCHANGED mgOthers

ManagerNext ==
    \/ \E t \in MgTasks, id \in MgPlugins, valid \in BOOLEAN : LoadPluginStart(t, id, valid)
    \/ \E t \in MgTasks : GrantWrite(t)
    \/ \E t \in MgTasks : GrantRead(t)
    \/ \E t \in MgTasks : LoadPluginInsert(t)
    \/ \E t \in MgTasks, id \in MgPlugins : ExecutePluginStart(t, id)
    \/ \E t \in MgTasks : ExecutePluginLookup(t)
    \/ \E t \in MgTasks : LockPlugin(t)
    \/ \E t \in MgTasks, ok \in BOOLEAN : ExecutePluginFinish(t, ok)
    \/ \E t \in MgTasks : ExecutePluginTimeout(t)
    \/ \E t \in MgTasks, id \in MgPlugins : UnloadPluginStart(t, id)
    \/ \E t \in MgTasks : UnloadPluginRemove(t)
    \/ \E t \in MgTasks, ok \in BOOLEAN : UnloadPluginCleanup(t, ok)
    \/ \E t \in MgTasks : HealthCheckAllStart(t)
    \/ \E t \in MgTasks : HealthCheckAllNext(t)
    \/ \E t \in MgTasks : HealthCheckOne(t)

(***************************************************************************)
(* PluginSandbox: resource monitoring of one execution after the other.    *)
(* Time is in seconds and moves in steps of TickSeconds; memory is in the  *)
(* unit of ResourceLimits.max_memory as the model carries it (megabytes).  *)
(***************************************************************************)
TickSeconds == 5

\* The values handed to record_memory_usage: below, at and above the limits.
MemoryValues == {16, 64, 65}

NoMonResult == [op |-> "none", result |-> "none"]

\* ResourceMonitor::new
NewResourceMonitor(limits) ==
    [start_time |-> 0, memory_usage |-> 0, cpu_time |-> 0,
     file_operations |-> 0, network_operations |-> 0, limits |-> limits]

\* ExecutionStats::default, the fields the monitor writes.
DefaultStats ==
    [total_executions |-> 0, security_violations |-> 0,
     average_execution_time |-> 0, total_cpu_time |-> 0]

MonitorAtRest ==
    /\ resource_monitor = NewResourceMonitor(DefaultLimits)
    /\ execution_stats = DefaultStats
    /\ clock = 0
    /\ mon_result = NoMonResult

MonitorInit ==
    /\ resource_monitor \in {NewResourceMonitor(l) : l \in {DefaultLimits, CustomLimits}}
    /\ execution_stats = DefaultStats
    /\ clock = 0
    /\ mon_result = NoMonResult

Max(a, b) == IF a >= b THEN a ELSE b

\* ResourceMonitor::stop: the time since start.
Stop(monitor, time) == time - monitor.start_time

\* check_resource_violations: the first limit found exceeded.
CheckResourceViolations(monitor, p) ==
    IF monitor.memory_usage > monitor.limits.max_memory_mb THEN "memory"
    ELSE IF monitor.cpu_time > monitor.limits.cpu_time_limit_s THEN "cpu_time"
    ELSE IF monitor.file_operations > p.max_file_descriptors THEN "file_operations"
    ELSE IF monitor.network_operations > p.max_network_connections
         THEN "network_operations"
    ELSE "ok"

StatsKept(stats, execution_time) == stats

\* stop_monitoring's update of the statistics before the limits are checked.
\* Duration's division truncates to its resolution, here one second.
StatsAfterStop(stats, execution_time) ==
    LET executions == stats.total_executions + 1
        cpu == stats.total_cpu_time + execution_time
    IN  [stats EXCEPT !.total_executions = executions,
                      !.total_cpu_time = cpu,
                      !.average_execution_time = cpu \div executions]

StartMonitoring ==
    /\ resource_monitor' =
          [resource_monitor EXCEPT !.start_time = clock, !.memory_usage = 0,
                                   !.cpu_time = 0, !.file_operations = 0,
                                   !.network_operations = 0]
    /\ mon_result' = [op |-> "start_monitoring", result |-> "ok"]
    /\ UNCHANGED <<execution_stats, clock>>
    /\ UNCHANGED monOthers

StopMonitoring ==
    LET execution_time == Stop(resource_monitor, clock)
        stats == StatsAfterStop(execution_stats, execution_time)
        violation == CheckResourceViolations(resource_monitor, policy)
    IN  /\ execution_stats.total_executions < MaxExecutions
        /\ execution_stats' =
              IF violation = "ok" THEN stats
              ELSE [stats EXCEPT !.security_violations = @ + 1]
        /\ mon_result' = [op |-> "stop_monitoring", result |-> violation]
        /\ UNCHANGED <<resource_monitor, clock>>
        /\ UNCHANGED monOthers

RecordMemoryUsage(bytes) ==
    /\ resource_monitor' =
          [resource_monitor EXCEPT !.memory_usage = Max(@, bytes)]
    /\ mon_result' = [op |-> "record_memory_usage", result |-> "ok"]
    /\ UNCHANGED <<execution_stats, clock>>
    /\ UNCHANGED monOthers

RecordFileOperation ==
    /\ resource_monitor.file_operations < MaxFileOps
    /\ resource_monitor' = [resource_monitor EXCEPT !.file_operations = @ + 1]
    /\ mon_result' = [op |-> "record_file_operation", result |-> "ok"]
    /\ UNCHANGED <<execution_stats, clock>>
    /\ UNCHANGED monOthers

RecordNetworkOperation ==
    /\ resource_monitor.network_operations < MaxNetOps
    /\ resource_monitor' = [resource_monitor EXCEPT !.network_operations = @ + 1]
    /\ mon_result' = [op |-> "record_network_operation", result |-> "ok"]
    /\ UNCHANGED <<execution_stats, clock>>
    /\ UNCHANGED monOthers

\* update_policy while the monitor is in use.
MonitorUpdatePolicy(p) ==
    /\ policy' = p
    /\ mon_result' = [op |-> "update_policy", result |-> "ok"]
    /\ UNCHANGED <<candidate, verdict, resource_monitor, execution_stats, clock>>
    /\ UNCHANGED <<rtVars, ldVars, busVars, mgVars, plVars, coreVars>>

MonitorTick ==
    /\ clock + TickSeconds <= MaxClock
    /\ clock' = clock + TickSeconds
    /\ UNCHANGED <<resource_monitor, execution_stats, mon_result>>
    /\ UNCHANGED monOthers

MonitorNext ==
    \/ StartMonitoring
    \/ StopMonitoring
    \/ \E bytes \in MemoryValues : RecordMemoryUsage(bytes)
    \/ RecordFileOperation
    \/ RecordNetworkOperation
    \/ \E p \in Profiles : MonitorUpdatePolicy(p)
    \/ MonitorTick

(***************************************************************************)
(* One plugin behind the WasmPlugin trait: the WasmPluginInstance that the *)
(* manager's load_plugin creates (crates/plugins/src/lib.rs) or the        *)
(* ExampleWasmPlugin (crates/plugins/src/example_plugin.rs).  The manager's *)
(* health_check_all reports for each plugin what its health_check returns. *)
(* ready, executed, returned_ok and returned_err are not fields of the     *)
(* code: they record whether initialize has returned Ok since construction *)
(* or the last cleanup, and the execute calls made on the initialized      *)
(* plugin with what they returned.                                         *)
(***************************************************************************)
PluginKinds == {"WasmPluginInstance", "ExampleWasmPlugin"}

PluginFunctions == {"hello", "analyze_text", "no_such_function"}

\* The input bytes: not JSON, {}, {"text": "a"}, {"name": 1}.
PluginInputs == {"not_json", "empty_object", "text_string", "name_number"}

NoPluginResult == [op |-> "none", result |-> "none", status |-> "none"]

\* ExampleWasmPlugin::new and WasmPluginInstance::new: nothing initialized,
\* every counter 0.
NewPlugin(kind) ==
    [kind |-> kind, initialized |-> FALSE,
     total_calls |-> 0, successful_calls |-> 0, failed_calls |-> 0,
     last_error |-> FALSE,
     ready |-> FALSE, executed |-> 0, returned_ok |-> 0, returned_err |-> 0]

PluginAtRest ==
    /\ wasm_plugin = NewPlugin("WasmPluginInstance")
    /\ pl_result = NoPluginResult

PluginInit ==
    /\ wasm_plugin \in {NewPlugin(kind) : kind \in PluginKinds}
    /\ pl_result = NoPluginResult

\* serde_json::from_slice(input) succeeds.
ParsesAsJson(input) == input # "not_json"

\* validate_input(function, &input_json) returns Ok.
ValidateInput(function, input) ==
    CASE function = "hello" -> input # "name_number"
      [] function = "analyze_text" -> input = "text_string"
      [] OTHER -> TRUE

\* update_function_stats(function, .., success), the global counters.
UpdateFunctionStats(plugin, success) ==
    [plugin EXCEPT !.total_calls = @ + 1,
                   !.successful_calls = IF success THEN @ + 1 ELSE @,
                   !.failed_calls = IF success THEN @ ELSE @ + 1]

\* execute_function: parses the input, runs the handler of a known function
\* and updates the counters itself before it returns the output.
ExecuteFunction(plugin, function, input) ==
    IF ~ParsesAsJson(input)
    THEN [result |-> "invalid_json", plugin |-> plugin]
    ELSE IF function = "no_such_function"
    THEN [result |-> "unknown_function", plugin |-> plugin]
    ELSE [result |-> "ok", plugin |-> UpdateFunctionStats(plugin, TRUE)]

\* ExampleWasmPlugin::execute.
ExampleExecute(plugin, function, input) ==
    IF ~plugin.initialized
    THEN [result |-> "not_initialized", plugin |-> plugin]
    ELSE IF ~ParsesAsJson(input)
    THEN [result |-> "invalid_json", plugin |-> plugin]
    ELSE IF ~ValidateInput(function, input)
    THEN [result |-> "invalid_input", plugin |-> plugin]
    ELSE LET done == ExecuteFunction(plugin, function, input)
         IN  IF done.result = "ok"
             THEN [result |-> "ok",
                   plugin |-> UpdateFunctionStats(done.plugin, TRUE)]
             ELSE [result |-> done.result,
                   plugin |-> [UpdateFunctionStats(done.plugin, FALSE)
                                  EXCEPT !.last_error = TRUE]]

\* WasmPluginInstance::execute: an empty success response, no counter
\* touched.
InstanceExecute(plugin, function, input) ==
    [result |-> "ok", plugin |-> plugin]

Execute(plugin, function, input) ==
    IF plugin.kind = "ExampleWasmPlugin"
    THEN ExampleExecute(plugin, function, input)
    ELSE InstanceExecute(plugin, function, input)

\* The status that health_check returns.
HealthStatus(plugin) ==
    IF plugin.kind = "ExampleWasmPlugin"
    THEN IF ~plugin.initialized THEN "Unhealthy"
         ELSE IF plugin.failed_calls > plugin.successful_calls THEN "Degraded"
         ELSE "Healthy"
    ELSE "Healthy"

\* initialize: the example plugin always succeeds; the instance calls the
\* module's initialize export, which can fail, and records nothing.
PluginInitialize(ok) ==
    /\ ok \/ wasm_plugin.kind = "WasmPluginInstance"
    /\ wasm_plugin' =
           IF ok
           THEN [wasm_plugin EXCEPT
                    !.initialized = wasm_plugin.kind = "ExampleWasmPlugin",
                    !.ready = TRUE]
           ELSE wasm_plugin
    /\ pl_result' = [op |-> "initialize",
                     result |-> IF ok THEN "ok" ELSE "initialization_failed",
                     status |-> "none"]
    /\ UNCHANGED plOthers

PluginExecute(function, input) ==
    /\ wasm_plugin.executed < MaxCalls
    /\ LET done == Execute(wasm_plugin, function, input)
       IN  /\ wasm_plugin' =
                  IF wasm_plugin.ready
                  THEN [done.plugin EXCEPT
                           !.executed = @ + 1,
                           !.returned_ok = IF done.result = "ok" THEN @ + 1 ELSE @,
                           !.returned_err = IF done.result = "ok" THEN @ ELSE @ + 1]
                  ELSE done.plugin
           /\ pl_result' = [op |-> "execute", result |-> done.result,
                            status |-> "none"]
    /\ UNCHANGED plOthers

PluginHealthCheck ==
    /\ pl_result' = [op |-> "health_check", result |-> "ok",
                     status |-> HealthStatus(wasm_plugin)]
    /\ UNCHANGED wasm_plugin
    /\ UNCHANGED plOthers

\* cleanup: the example plugin forgets that it was initialized and keeps its
\* counters; the instance has nothing to clean up.
PluginCleanup ==
    /\ wasm_plugin' = [wasm_plugin EXCEPT !.initialized = FALSE, !.ready = FALSE]
    /\ pl_result' = [op |-> "cleanup", result |-> "ok", status |-> "none"]
    /\ UNCHANGED plOthers

PluginNext ==
    \/ \E ok \in BOOLEAN : PluginInitialize(ok)
    \/ \E function \in PluginFunctions, input \in PluginInputs :
           PluginExecute(function, input)
    \/ PluginHealthCheck
    \/ PluginCleanup

(***************************************************************************)
(* The core PluginManager (crates/core/src/plugin_manager.rs): the plugins *)
(* map and the configs map, each behind a tokio RwLock, which serves its   *)
(* waiters in arrival order.  A call asks for its locks one after the      *)
(* other and keeps what it was granted until it returns.                   *)
(***************************************************************************)
CoreTasks == 1..NumCoreTasks

CorePluginIds == {"k"}

CoreLocks == {"plugins", "configs"}

CoreOps ==
    {"register_plugin", "unregister_plugin", "unload_all", "update_config",
     "get_active_plugins", "health_check_all"}

\* One .read().await or .write().await; keep is FALSE where the guard is a
\* temporary that is dropped at the end of the statement.
Request(lock, mode, keep) == [lock |-> lock, mode |-> mode, keep |-> keep]

\* The locks a call asks for, in the order of its code.
LockPlan(op) ==
    CASE op = "register_plugin" ->
             <<Request("configs", "read", FALSE), Request("plugins", "write", TRUE),
               Request("configs", "write", TRUE)>>
      [] op = "unregister_plugin" ->
             <<Request("plugins", "write", TRUE), Request("configs", "write", TRUE)>>
      [] op = "unload_all" ->
             <<Request("plugins", "write", TRUE), Request("configs", "write", TRUE)>>
      [] op = "update_config" ->
             <<Request("configs", "write", TRUE), Request("plugins", "read", TRUE)>>
      [] op = "get_active_plugins" ->
             <<Request("plugins", "read", TRUE), Request("configs", "read", TRUE)>>
      [] op = "health_check_all" ->
             <<Request("plugins", "read", TRUE)>>
      [] OTHER -> <<>>

IdleCoreTask ==
    [pc |-> "idle", op |-> "none", id |-> "", pos |-> 0, init_ok |-> TRUE,
     result |-> "none"]

CoreInit ==
    /\ core_plugins = {}
    /\ core_configs = {}
    /\ core_task = [t \in CoreTasks |-> IdleCoreTask]
    /\ core_queue = [lock \in CoreLocks |-> <<>>]

\* The request a waiting call is waiting for.
Awaited(t) == LockPlan(core_task[t].op)[core_task[t].pos]

\* The calls that hold the lock in the mode: it was granted to them and kept.
CoreHolders(lock, mode) ==
    {t \in CoreTasks :
        \E i \in 1..Len(LockPlan(core_task[t].op)) :
            /\ LockPlan(core_task[t].op)[i] = Request(lock, mode, TRUE)
            /\ \/ i < core_task[t].pos
               \/ i = core_task[t].pos /\ core_task[t].pc = "running"}

\* The lock can be granted in the mode.
Grantable(lock, mode) ==
    /\ CoreHolders(lock, "write") = {}
    /\ mode = "write" => CoreHolders(lock, "read") = {}

\* What the call does to the plugins map under the lock granted at pos.
PluginsAfter(op, pos, id, held) ==
    CASE op = "register_plugin" /\ pos = 2 -> held \cup {id}
      [] op = "unregister_plugin" /\ pos = 1 -> held \ {id}
      [] op = "unload_all" /\ pos = 1 -> {}
      [] OTHER -> held

\* What the call does to the configs map under the lock granted at pos.
ConfigsAfter(op, pos, id, held) ==
    CASE op = "register_plugin" /\ pos = 3 -> held \cup {id}
      [] op = "unregister_plugin" /\ pos = 2 -> held \ {id}
      [] op = "unload_all" /\ pos = 2 -> {}
      [] op = "update_config" /\ pos = 1 -> held \cup {id}
      [] OTHER -> held

\* The error with which the call returns right after the lock granted at
\* pos, or "none": plugin.initialize failed, or the plugin was not found.
EarlyReturn(call) ==
    IF call.op = "register_plugin" /\ call.pos = 1 /\ ~call.init_ok
    THEN "initialization_failed"
    ELSE IF call.op = "unregister_plugin" /\ call.pos = 1
            /\ call.id \notin core_plugins
    THEN "not_found"
    ELSE "none"

\* A call starts and reaches its first .await on a lock.
CoreCall(t, op, id, init_ok) ==
    /\ core_task[t].pc = "idle"
    /\ core_task' = [core_task EXCEPT ![t] =
           [IdleCoreTask EXCEPT !.pc = "waiting", !.op = op, !.id = id,
                                !.pos = 1, !.init_ok = init_ok]]
    /\ core_queue' = [core_queue EXCEPT ![LockPlan(op)[1].lock] = Append(@, t)]
    /\ UNCHANGED <<core_plugins, core_configs>>
    /\ UNCHANGED coreOthers

\* The lock is granted to its first waiter; the call works under it up to
\* its next .await on a lock, its early return or the end of its locks.
CoreGrant(t) ==
    /\ core_task[t].pc = "waiting"
    /\ LET call == core_task[t]
           lock == Awaited(t).lock
           plan == LockPlan(call.op)
       IN  /\ core_queue[lock] # <<>> /\ Head(core_queue[lock]) = t
           /\ Grantable(lock, Awaited(t).mode)
           /\ core_plugins' = PluginsAfter(call.op, call.pos, call.id, core_plugins)
           /\ core_configs' = ConfigsAfter(call.op, call.pos, call.id, core_configs)
           /\ IF EarlyReturn(call) # "none"
              THEN /\ core_task' = [core_task EXCEPT ![t] =
                          [IdleCoreTask EXCEPT !.op = call.op, !.id = call.id,
                                               !.result = EarlyReturn(call)]]
                   /\ core_queue' = [core_queue EXCEPT ![lock] = Tail(@)]
              ELSE IF call.pos < Len(plan)
              THEN /\ core_task' = [core_task EXCEPT ![t].pos = call.pos + 1]
                   /\ core_queue' =
                          [l \in CoreLocks |->
                              LET rest == IF l = lock THEN Tail(core_queue[l])
                                          ELSE core_queue[l]
                              IN  IF l = plan[call.pos + 1].lock
                                  THEN Append(rest, t) ELSE rest]
              ELSE /\ core_task' = [core_task EXCEPT ![t].pc = "running"]
                   /\ core_queue' = [core_queue EXCEPT ![lock] = Tail(@)]
    /\ UNCHANGED coreOthers

\* The call returns and its guards are dropped.
CoreReturn(t) ==
    /\ core_task[t].pc = "running"
    /\ core_task' = [core_task EXCEPT ![t] =
           [IdleCoreTask EXCEPT !.op = core_task[t].op, !.id = core_task[t].id,
                                !.result = "ok"]]
    /\ UNCHANGED <<core_plugins, core_configs, core_queue>>
    /\ UNCHANGED coreOthers

CoreNext ==
    \/ \E t \in CoreTasks, op \in CoreOps, id \in CorePluginIds, init_ok \in BOOLEAN :
           CoreCall(t, op, id, init_ok)
    \/ \E t \in CoreTasks : CoreGrant(t)
    \/ \E t \in CoreTasks : CoreReturn(t)

LoaderAtRest ==
    /\ files = <<>>
    /\ plugin_registry = <<>>
    /\ loaded_plugins = <<>>
    /\ next_plugin = 1
    /\ loader_runtime = EmptyRuntime
    /\ ld_result = NoResult

(***************************************************************************)
(* Specifications: one per subsystem, the others at rest.                  *)
(***************************************************************************)
Init ==
    /\ RuntimeInit /\ SandboxAtRest /\ LoaderAtRest /\ BusInit /\ ManagerInit
    /\ MonitorAtRest /\ PluginAtRest /\ CoreInit

Next == RuntimeNext

Spec == Init /\ [][Next]_vars

ValidatorInit ==
    /\ RuntimeInit /\ SandboxInit /\ LoaderAtRest /\ BusInit /\ ManagerInit
    /\ MonitorAtRest /\ PluginAtRest /\ CoreInit

ValidatorSpec == ValidatorInit /\ [][SandboxNext]_vars

LoaderSpecInit ==
    /\ RuntimeInit /\ SandboxAtRest /\ LoaderInit /\ BusInit /\ ManagerInit
    /\ MonitorAtRest /\ PluginAtRest /\ CoreInit

LoaderSpec == LoaderSpecInit /\ [][LoaderNext]_vars

BusSpec == Init /\ [][BusNext]_vars

RouterSpec == Init /\ [][RouterNext]_vars

ManagerSpec == Init /\ [][ManagerNext]_vars

\* Scheduling of the manager's calls: a call that can take its next step takes
\* it (the executor polls every woken task, a plugin's function returns or
\* its timeout fires, cleanup and health_check return), and a call waiting for
\* a plugin's Mutex gets it when it is free again and again (the Mutex is
\* fair).  Nothing obliges a caller to start a call.
MgStep(t) ==
    \/ GrantWrite(t)
    \/ GrantRead(t)
    \/ LoadPluginInsert(t)
    \/ ExecutePluginLookup(t)
    \/ ExecutePluginTimeout(t)
    \/ \E ok \in BOOLEAN : ExecutePluginFinish(t, ok)
    \/ UnloadPluginRemove(t)
    \/ \E ok \in BOOLEAN : UnloadPluginCleanup(t, ok)
    \/ HealthCheckAllNext(t)
    \/ HealthCheckOne(t)

ManagerFairness ==
    \A t \in MgTasks : WF_vars(MgStep(t)) /\ SF_vars(LockPlugin(t))

\* The callers where termination matters: caller 1 executes plugins, caller 2
\* loads and unloads them, the others execute them and check their health.
ManagerLiveNext ==
    \/ \E id \in MgPlugins, valid \in BOOLEAN : LoadPluginStart(2, id, valid)
    \/ \E id \in MgPlugins : UnloadPluginStart(2, id)
    \/ \E t \in MgTasks \ {2}, id \in MgPlugins : ExecutePluginStart(t, id)
    \/ \E t \in MgTasks \ {1, 2} : HealthCheckAllStart(t)
    \/ \E t \in MgTasks : MgStep(t)
    \/ \E t \in MgTasks : LockPlugin(t)

ManagerLiveSpec == Init /\ [][ManagerLiveNext]_vars /\ ManagerFairness

MonitorSpecInit ==
    /\ RuntimeInit /\ LoaderAtRest /\ BusInit /\ ManagerInit
    /\ policy \in Profiles /\ candidate = NoCandidate /\ verdict = "none"
    /\ MonitorInit /\ PluginAtRest /\ CoreInit

MonitorSpec == MonitorSpecInit /\ [][MonitorNext]_vars

(***************************************************************************)
(* A single caller using the runtime sequentially.                         *)
(***************************************************************************)
SeqNext ==
    \/ \E m \in Modules : GetInstance(1, m)
    \/ CreateCheck(1)
    \/ \E compiles \in BOOLEAN : CreateInstantiate(1, compiles)
    \/ CallStart(1)
    \/ CallReturn(1)
    \/ CallFail(1)
    \/ CallTimeout(1)
    \/ DropHandle(1)
    \/ ReturnInstance(1)
    \/ CleanupPool
    \/ Tick

SeqSpec == Init /\ [][SeqNext]_vars

PluginSpecInit ==
    /\ RuntimeInit /\ SandboxAtRest /\ LoaderAtRest /\ BusInit /\ ManagerInit
    /\ MonitorAtRest /\ PluginInit /\ CoreInit

PluginSpec == PluginSpecInit /\ [][PluginNext]_vars

CoreSpec == Init /\ [][CoreNext]_vars

\* A call that can take a step takes it: the lock hands itself to its first
\* waiter as soon as it can, and a call that has its locks runs to its return.
CoreStep(t) == CoreGrant(t) \/ CoreReturn(t)

CoreFairness == \A t \in CoreTasks : WF_vars(CoreStep(t))

CoreLiveSpec == Init /\ [][CoreNext]_vars /\ CoreFairness

(***************************************************************************)
(* Claims about the runtime.                                               *)
(***************************************************************************)
Holding(t) == task[t].pc \in {"holding", "executing"}

Holders == {t \in Tasks : Holding(t)}

\* C1: an instance is either idle in the pool or held by exactly one
\* in-flight call: no two handles hold the same instance, no held instance
\* is also in the pool, and the pool holds no instance twice.
C1_SingleWriter ==
    /\ \A t1 \in Holders : \A t2 \in Holders \ {t1} :
            task[t1].handle.id # task[t2].handle.id
    /\ \A t \in Holders : \A i \in 1..Len(instance_pool) :
            instance_pool[i].id # task[t].handle.id
    /\ \A i \in 1..Len(instance_pool) : \A j \in 1..Len(instance_pool) :
            instance_pool[i].id = instance_pool[j].id => i = j
    /\ \A t \in Holders : task[t].handle.id # 0

\* C1 witness: an instance taken back out of the pool is executing a call
\* while another caller executes on its own instance.
C1_Witness ==
    \E t1 \in Tasks : \E t2 \in Tasks \ {t1} :
        /\ task[t1].pc = "executing"
        /\ task[t1].handle.usage_count >= 2
        /\ task[t2].pc = "executing"

\* C2: the number of instances checked out at the same time never exceeds
\* max_instances.
C2_ActiveCap == Cardinality(Holders) <= max_instances

\* C3: an instance whose call_function ended with the timeout error is
\* never in the pool and never executes a later call.
C3_TimedOutDiscarded ==
    /\ \A i \in 1..Len(instance_pool) : ~instance_pool[i].timed_out
    /\ \A t \in Tasks : task[t].pc = "executing" => ~task[t].handle.timed_out

\* C9: once every checked-out handle has been dropped or returned (and no
\* get_instance is in progress) the active-instance count is back to zero.
C9_CapacityReleased ==
    (\A t \in Tasks : task[t].pc = "idle") => active_instances = 0

\* C10: get_instance(m), release of the handle, get_instance(m) again: the
\* second get_instance is a pool hit that returns the released instance
\* with usage_count incremented by one, and instantiates nothing.
C10_PoolReuse ==
    [][(/\ released.id # 0
        /\ task[1].pc = "idle"
        /\ task'[1].pc # "idle"
        /\ released' = NoInstance
        /\ (task'[1].module = released.module_id
             \/ task'[1].handle.module_id = released.module_id))
       => (/\ task'[1].pc = "holding"
           /\ task'[1].handle.id = released.id
           /\ task'[1].handle.usage_count = released.usage_count + 1
           /\ next_instance' = next_instance)]_vars

\* A step in which the call_function of caller t ends with the timeout.
CallTimeoutStep(t) ==
    /\ task'[t].result = "timeout"
    /\ CallTimeout(t)

\* C28: the timeout of one call interrupts only instances past their own
\* deadline: when call_function times out on one instance and advances the
\* epoch, a call executing at that moment on an instance of another module,
\* its own timeout not yet over, is not made to trap.
C28_TimeoutSparesOthers ==
    [][\A t \in Tasks :
          CallTimeoutStep(t) =>
              \A u \in Tasks \ {t} :
                  (/\ task[u].pc = "executing"
                   /\ task[u].handle.module_id # task[t].handle.module_id)
                      => ~DeadlineReached(task'[u].handle, epoch')]_vars

\* A step that is a call of interrupt_all.
InterruptAllStep ==
    /\ epoch' = epoch + 1
    /\ InterruptAll

\* The calls executing on an instance whose deadline has been reached.
Interrupted == {t \in Tasks : task[t].pc = "executing" /\ DeadlineReached(task[t].handle, epoch)}

\* C29 as stated: after interrupt_all every call that was executing at that
\* moment ends with an error, never with a normal result.
C29_InterruptedNeverReturns ==
    [][\A t \in Interrupted : task'[t].result # "value"]_vars

\* C29: interrupt_all puts every instance that is executing a call at that
\* moment past its deadline, whatever is left of the call's timeout; such a
\* call traps at the next check-point it reaches, and until it has ended no
\* step takes it back before the deadline.
C29_InterruptAllTraps ==
    [][/\ InterruptAllStep =>
              \A t \in Tasks : task[t].pc = "executing" => t \in Interrupted'
       /\ \A t \in Interrupted :
              /\ ENABLED CallCheckPoint(t)
              /\ CallCheckPoint(t) =>
                     task'[t].pc = "holding" /\ task'[t].result = "interrupted"
              /\ task'[t].pc = "executing" => t \in Interrupted']_vars

\* Two calls were executing when interrupt_all ran; one has trapped at a
\* check-point and the other is still running, past its deadline.
C29_Witness ==
    \E t \in Tasks : \E u \in Interrupted \ {t} :
        /\ task[t].pc = "holding" /\ task[t].result = "interrupted"
        /\ \A v \in Tasks : ~task[v].handle.timed_out
        /\ released = NoInstance

\* A step that is a call of return_instance with the instance of caller t.
ReturnInstanceStep(t) ==
    /\ task'[t].result = "returned"
    /\ ReturnInstance(t)

\* C30: return_instance keeps the instance in the pool if and only if its
\* usage_count is below 1000 and its age is below 1 hour.  No instance is
\* older than the runtime, whose clock starts at 0: before the first hour is
\* over every returned instance with usage_count below 1000 is in the pool
\* afterwards.
C30_KeptIffYoung ==
    [][\A t \in Tasks :
          ReturnInstanceStep(t) =>
              ((task[t].handle.usage_count < ReuseCeiling /\ now < MaxAgeUnits)
                  => \E i \in 1..Len(instance_pool') :
                         instance_pool'[i].id = task[t].handle.id)]_vars

\* C31: the pool of idle instances stays bounded: it never holds more than
\* max_instances instances, and a return_instance that leaves it longer than
\* max_instances / 2 leaves no entry in it that has been idle for 30 minutes
\* or more.
C31_PoolBounded ==
    [][/\ Len(instance_pool') <= max_instances
       /\ \A t \in Tasks :
              (ReturnInstanceStep(t) /\ Len(instance_pool') > max_instances \div 2)
                  => \A i \in 1..Len(instance_pool') :
                         Elapsed(instance_pool'[i], now) < StaleUnits]_vars

\* C35: the active-instance counter is exact: it equals the number of
\* instances checked out and not yet returned.
C35_CounterExact == active_instances = Cardinality(Holders)

\* C36: an epoch advance affects only the calls executing at that moment: an
\* instance that is idle in the pool or checked out but not executing when the
\* epoch advances is not past its deadline afterwards, so that a later call on
\* it can run to normal completion.
C36_IdleUnaffected ==
    [][epoch' # epoch =>
          /\ \A i \in 1..Len(instance_pool) :
                 ~DeadlineReached(instance_pool[i], epoch')
          /\ \A t \in Tasks :
                 task[t].pc = "holding" /\ ~task[t].handle.timed_out
                     => ~DeadlineReached(task[t].handle, epoch')]_vars

(***************************************************************************)
(* Claims about the sandbox and the loader.                                *)
(***************************************************************************)
\* An import from the platform-capability namespace whose capability the
\* policy does not allow.
HasDeniedImport(p, mod) ==
    \E i \in 1..Len(mod.imports) :
        /\ mod.imports[i].module = WasiNamespace
        /\ CapabilityOf(mod.imports[i].name) \in Capabilities \ p.allowed_wasi_capabilities

\* The bytes a checksum was computed from.
BytesOf(checksum) == CHOOSE b \in FileContents : CalculateChecksum(b) = checksum

\* C4: a module that imports a capability absent from the active policy's
\* allowed set never reaches Loaded status, and is never in the loaded set.
C4_DeniedNeverLoaded ==
    /\ \A id \in DOMAIN plugin_registry :
            plugin_registry[id].status = "Loaded" =>
                ~HasDeniedImport(policy, Decode(BytesOf(plugin_registry[id].checksum)))
    /\ \A id \in DOMAIN loaded_plugins :
            ~HasDeniedImport(policy, Decode(BytesOf(loaded_plugins[id].checksum)))

\* C5: for every policy and every module, validate_plugin rejects the
\* module if one of its imports from the platform-capability namespace maps
\* to a capability outside the policy's allowed set.
C5_DeniedImportRejected ==
    (verdict # "none" /\ HasDeniedImport(policy, candidate.module)) => verdict # "ok"

\* An import from the platform-capability namespace whose symbol maps to no
\* known capability.
HasUnknownWasiImport(mod) ==
    \E i \in 1..Len(mod.imports) :
        /\ mod.imports[i].module = WasiNamespace
        /\ CapabilityOf(mod.imports[i].name) \notin Capabilities

\* C11: unknown means deny: validate_plugin rejects every module that has
\* an import from the platform-capability namespace whose symbol is not
\* mapped to a known capability.
C11_UnknownDenied ==
    (verdict # "none" /\ HasUnknownWasiImport(candidate.module)) => verdict # "ok"

HasForeignImport(mod) ==
    \E i \in 1..Len(mod.imports) : mod.imports[i].module # WasiNamespace

\* C12: for every policy, validate_plugin rejects every module that has an
\* import whose namespace is not the platform-capability namespace.
C12_ForeignImportRejected ==
    (verdict # "none" /\ HasForeignImport(candidate.module)) => verdict # "ok"

\* C13: with require_signature set, validate_plugin fails for every plugin
\* whose author is not in trusted_authors; with require_signature not set,
\* the verdict is the same whoever the author is.
C13_AuthorCheck ==
    verdict # "none" =>
        /\ (policy.require_signature /\ candidate.author \notin policy.trusted_authors)
               => verdict = "untrusted_author"
        /\ ~policy.require_signature =>
               /\ verdict # "untrusted_author"
               /\ \A a \in Authors :
                      PluginVerdict(policy, [candidate EXCEPT !.author = a]) = verdict

\* The untrusted tier has rejected a plugin for its author, the module and
\* the declared capabilities being acceptable.
C13_Witness ==
    /\ policy = Untrusted
    /\ verdict = "untrusted_author"
    /\ ValidateWasmModule(policy, candidate.module) = "ok"
    /\ ValidateCapabilities(candidate.capabilities) = "ok"

\* The file of registered plugin id is there and no longer has the bytes it
\* had at discovery.
Altered(id) ==
    /\ id \in DOMAIN plugin_registry
    /\ plugin_registry[id].file_path \in DOMAIN files
    /\ CalculateChecksum(files[plugin_registry[id].file_path])
            # plugin_registry[id].checksum

\* A step that is a call of load_plugin(id, limits) for some limits.
LoadPluginStep(id) ==
    /\ ld_result'.op = "load_plugin"
    /\ ld_result'.id = id
    /\ \E limits \in LimitOptions : LoadPlugin(id, limits)

\* What C6 promises of a load_plugin(id) step.
MismatchReported(id) ==
    /\ ld_result'.result = "checksum_mismatch"
    /\ id \notin DOMAIN loaded_plugins'
    /\ plugin_registry'[id].status # "Loaded"

\* C6: if the bytes of a discovered plugin file are altered after discovery
\* and before load_plugin, load_plugin fails with the checksum-mismatch
\* error, the plugin is not in the loaded set, and its status is not Loaded.
C6_MismatchRejected ==
    [][\A id \in PluginIds :
          (LoadPluginStep(id) /\ Altered(id)) => MismatchReported(id)]_vars

\* C6, amended: the same, for a plugin that is not already loaded when
\* load_plugin is called (load_plugin of a loaded plugin is a no-op).
C6_MismatchRejectedUnlessLoaded ==
    [][\A id \in PluginIds :
          (LoadPluginStep(id) /\ Altered(id) /\ id \notin DOMAIN loaded_plugins)
              => MismatchReported(id)]_vars

C6_Witness ==
    \E id \in DOMAIN plugin_registry :
        /\ ld_result = [op |-> "load_plugin", id |-> id, result |-> "checksum_mismatch"]
        /\ Altered(id)
        /\ id \notin DOMAIN loaded_plugins
        /\ plugin_registry[id].status = "Available"

\* C18: load_plugin is idempotent: for an id that is already loaded it
\* returns success and leaves the loaded records, the registry and the
\* runtime's active-instance count unchanged, whatever limits are passed and
\* whatever the file on disk holds.
C18_LoadIdempotent ==
    [][\A id \in PluginIds :
          (LoadPluginStep(id) /\ id \in DOMAIN loaded_plugins) =>
              /\ ld_result'.result = "already_loaded"
              /\ loaded_plugins' = loaded_plugins
              /\ plugin_registry' = plugin_registry
              /\ loader_runtime' = loader_runtime]_vars

\* load_plugin has returned for a plugin that was loaded with limits of its
\* own and whose file has changed since.
C18_Witness ==
    \E id \in DOMAIN loaded_plugins :
        /\ ld_result = [op |-> "load_plugin", id |-> id, result |-> "already_loaded"]
        /\ Altered(id)
        /\ loaded_plugins[id].limits = CustomLimits
        /\ loader_runtime.active_instances = 1

\* A step that is a call of discover_plugins.
DiscoverPluginsStep ==
    /\ ld_result'.op = "discover_plugins"
    /\ \E config \in DiscoveryConfigs : DiscoverPlugins(config)

\* C21: discover_plugins leaves the loaded plugins and every entry already
\* in the registry (its status and checksum with it) as they were, and every
\* entry it adds has status Available.
C21_DiscoveryKeepsLoaded ==
    [][DiscoverPluginsStep =>
          /\ loaded_plugins' = loaded_plugins
          /\ loader_runtime' = loader_runtime
          /\ \A i \in DOMAIN plugin_registry :
                 /\ i \in DOMAIN plugin_registry'
                 /\ plugin_registry'[i].status = plugin_registry[i].status
                 /\ plugin_registry'[i].checksum = plugin_registry[i].checksum
          /\ \A i \in DOMAIN plugin_registry' \ DOMAIN plugin_registry :
                 plugin_registry'[i].status = "Available"]_vars

\* The directory has been discovered again while a plugin from it is loaded:
\* the file of the loaded plugin has a second, Available entry.
C21_Witness ==
    /\ ld_result = [op |-> "discover_plugins", id |-> 0, result |-> "ok"]
    /\ \E i \in DOMAIN loaded_plugins, j \in DOMAIN plugin_registry :
           /\ i < j
           /\ plugin_registry[i].status = "Loaded"
           /\ plugin_registry[j].status = "Available"
           /\ plugin_registry[j].file_path = plugin_registry[i].file_path

\* A step that is a call of unload_plugin(id).
UnloadPluginStep(id) ==
    /\ ld_result'.op = "unload_plugin"
    /\ ld_result'.id = id
    /\ UnloadPlugin(id)

\* C37: a plugin id is in the loader's loaded set if and only if its registry
\* entry exists and has status Loaded; unload_plugin never removes the
\* registry entry, and unload_plugin of an id that is not loaded changes
\* nothing.
C37_LoadedIffStatus ==
    /\ [](\A id \in PluginIds :
              id \in DOMAIN loaded_plugins
                  <=> (id \in DOMAIN plugin_registry
                         /\ plugin_registry[id].status = "Loaded"))
    /\ [][\A id \in PluginIds :
              UnloadPluginStep(id) =>
                  /\ DOMAIN plugin_registry' = DOMAIN plugin_registry
                  /\ ld_result'.result = "ok"
                  /\ id \notin DOMAIN loaded_plugins =>
                         /\ plugin_registry' = plugin_registry
                         /\ loaded_plugins' = loaded_plugins
                         /\ loader_runtime' = loader_runtime]_vars

\* Two plugins were loaded and one of them has been unloaded: its entry is
\* still in the registry, Available again, and the other is still loaded.
C37_Witness ==
    \E id \in DOMAIN plugin_registry, other \in DOMAIN loaded_plugins :
        /\ ld_result = [op |-> "unload_plugin", id |-> id, result |-> "ok"]
        /\ id \notin DOMAIN loaded_plugins
        /\ plugin_registry[id].status = "Available"
        /\ plugin_registry[other].status = "Loaded"
        /\ loader_runtime.active_instances = 2

\* A step that is a call of reload_plugin(id).
ReloadPluginStep(id) ==
    /\ ld_result'.op = "reload_plugin"
    /\ ld_result'.id = id
    /\ ReloadPlugin(id)

\* C19: whenever load_plugin or reload_plugin fails on a registered plugin,
\* the plugin's registry status becomes Error(reason).
C19_FailureSetsError ==
    [][\A id \in PluginIds :
          (/\ LoadPluginStep(id) \/ ReloadPluginStep(id)
           /\ id \in DOMAIN plugin_registry
           /\ ld_result'.result \notin {"ok", "already_loaded"})
              => plugin_registry'[id].status = "Error"]_vars

\* C20: reload_plugin(id) on a loaded plugin leaves the loader where
\* unload_plugin(id) followed by load_plugin(id, L) leaves it, L being the
\* limits the plugin was loaded with; after a successful reload the plugin
\* is Loaded and its record carries the limits it had before.
C20_ReloadKeepsLimits ==
    [][\A id \in PluginIds :
          (ReloadPluginStep(id) /\ id \in DOMAIN loaded_plugins) =>
              LET un == UnloadOutcome(plugin_registry, loaded_plugins,
                                      loader_runtime, id)
                  ld == LoadOutcome(un.registry, un.loaded, un.runtime, id,
                                    {loaded_plugins[id].limits})
              IN  /\ plugin_registry' = ld.registry
                  /\ loaded_plugins' = ld.loaded
                  /\ loader_runtime' = ld.runtime
                  /\ ld_result'.result = ld.result
                  /\ ld_result'.result = "ok" =>
                         /\ id \in DOMAIN loaded_plugins'
                         /\ plugin_registry'[id].status = "Loaded"
                         /\ loaded_plugins'[id].limits = loaded_plugins[id].limits]_vars

\* reload_plugin has succeeded for a plugin loaded with limits of its own.
C20_Witness ==
    \E id \in DOMAIN loaded_plugins :
        /\ ld_result = [op |-> "reload_plugin", id |-> id, result |-> "ok"]
        /\ loaded_plugins[id].limits = CustomLimits
        /\ plugin_registry[id].status = "Loaded"
        /\ loader_runtime.active_instances = 2

\* The calls that are running a plugin's function.
Executing == {t \in MgTasks : mg_task[t].pc = "executing"}

\* The reader at position k of the lock's queue can be served with the
\* present holders in place: no writer holds the lock or waits before it.
Servable(k) ==
    /\ Writers = {}
    /\ \A j \in 1..k : mg_task[rw_queue[j]].pc = "wait_read"

\* C25: every execute_plugin call on the manager returns in the end, whatever
\* load_plugin, unload_plugin, health_check_all and other execute_plugin calls
\* run beside it: with NotFound for an id that is not loaded, else with the
\* plugin's result or the timeout error.
C25_ExecuteReturns ==
    /\ \A t \in MgTasks :
           (mg_task[t].op = "execute_plugin" /\ mg_task[t].pc # "idle")
               ~> (mg_task[t].pc = "idle")
    /\ [][\A t \in MgTasks :
             (/\ mg_task[t].op = "execute_plugin" /\ mg_task[t].pc # "idle"
              /\ mg_task'[t].pc = "idle")
                 => /\ mg_task'[t].result \in {"not_found", "ok", "error", "timeout"}
                    /\ mg_task'[t].result = "not_found"
                           <=> mg_task[t].id \notin DOMAIN plugins]_vars

\* An execute_plugin call has returned the plugin's result while an
\* unload_plugin is waiting for the lock and another call holds it.
C25_Witness ==
    \E t, u, v \in MgTasks :
        /\ mg_task[t].op = "execute_plugin" /\ mg_task[t].pc = "idle"
        /\ mg_task[t].result = "ok"
        /\ mg_task[u].op = "unload_plugin" /\ mg_task[u].pc = "wait_write"
        /\ mg_task[u].id = mg_task[t].id
        /\ mg_task[v].pc \in {"executing", "checking"}

\* C26: no lock on the manager's shared state is held while a plugin's
\* function executes: while execute_plugin runs on plugin A, a load_plugin or
\* unload_plugin of another plugin B that is next in line for the lock gets it
\* without waiting for the execution to end.
C26_NoLockAcrossExecution ==
    \A t \in Executing, k \in DOMAIN rw_queue :
        LET u == rw_queue[k]
        IN  (/\ mg_task[u].pc = "wait_write"
             /\ mg_task[u].id # mg_task[t].id
             /\ k = 1
             /\ Readers = {t})
                => ENABLED GrantWrite(u)

\* C27: execute_plugin calls on different plugins do not wait for each
\* other: while execute_plugin runs on plugin A, an execute_plugin on another
\* plugin B that waits for the lock can be served without A's execution
\* ending, also with a load_plugin or unload_plugin in the queue.
C27_ExecuteIndependent ==
    \A t \in Executing, k \in DOMAIN rw_queue :
        LET u == rw_queue[k]
        IN  (/\ mg_task[u].op = "execute_plugin"
             /\ mg_task[u].pc = "wait_read"
             /\ mg_task[u].id # mg_task[t].id)
                => Servable(k)

(***************************************************************************)
(* Claims about the sandbox's resource monitor.                            *)
(***************************************************************************)
\* A step that is a call of stop_monitoring.
StopMonitoringStep ==
    /\ mon_result'.op = "stop_monitoring"
    /\ StopMonitoring

\* A step that is a call of start_monitoring.
StartMonitoringStep ==
    /\ mon_result'.op = "start_monitoring"
    /\ StartMonitoring

\* What the execution that stop_monitoring ends has used beyond its limits.
\* Its CPU time is the time stop_monitoring adds to total_cpu_time.
MemoryExceeded == resource_monitor.memory_usage > resource_monitor.limits.max_memory_mb
CpuTimeExceeded ==
    Stop(resource_monitor, clock) > resource_monitor.limits.cpu_time_limit_s
FileOperationsExceeded == resource_monitor.file_operations > policy.max_file_descriptors
NetworkOperationsExceeded ==
    resource_monitor.network_operations > policy.max_network_connections

\* C22: stop_monitoring returns a violation if and only if the memory
\* recorded since start_monitoring exceeds max_memory, or the CPU time exceeds
\* cpu_time_limit, or the file operations exceed max_file_descriptors, or the
\* network operations exceed max_network_connections; security_violations
\* grows by exactly 1 with a violation and stays otherwise.
C22_ViolationIffExceeded ==
    [][StopMonitoringStep =>
          LET exceeded == \/ MemoryExceeded
                          \/ CpuTimeExceeded
                          \/ FileOperationsExceeded
                          \/ NetworkOperationsExceeded
          IN  /\ (mon_result'.result # "ok") <=> exceeded
              /\ execution_stats'.security_violations =
                     execution_stats.security_violations
                         + (IF exceeded THEN 1 ELSE 0)]_vars

\* C23: when several limits are exceeded in one execution, stop_monitoring
\* reports the first in the order memory, CPU time, file operations, network
\* operations, and counts one violation.
C23_FirstInOrder ==
    [][StopMonitoringStep =>
          LET exceeded ==
                  {c \in {"memory", "cpu_time", "file_operations", "network_operations"} :
                      \/ c = "memory" /\ MemoryExceeded
                      \/ c = "cpu_time" /\ CpuTimeExceeded
                      \/ c = "file_operations" /\ FileOperationsExceeded
                      \/ c = "network_operations" /\ NetworkOperationsExceeded}
              first == IF "memory" \in exceeded THEN "memory"
                       ELSE IF "cpu_time" \in exceeded THEN "cpu_time"
                       ELSE IF "file_operations" \in exceeded THEN "file_operations"
                       ELSE "network_operations"
          IN  Cardinality(exceeded) >= 2 =>
                 /\ mon_result'.result = first
                 /\ execution_stats'.security_violations =
                        execution_stats.security_violations + 1]_vars

\* C24: total_executions, security_violations and total_cpu_time never
\* decrease; start_monitoring resets the counters of the execution and leaves
\* the statistics as they are; every stop_monitoring adds exactly 1 to
\* total_executions, with or without a violation.
C24_StatsCumulative ==
    [][/\ execution_stats'.total_executions >= execution_stats.total_executions
       /\ execution_stats'.security_violations >= execution_stats.security_violations
       /\ execution_stats'.total_cpu_time >= execution_stats.total_cpu_time
       /\ StartMonitoringStep =>
              /\ execution_stats' = execution_stats
              /\ resource_monitor'.memory_usage = 0
              /\ resource_monitor'.cpu_time = 0
              /\ resource_monitor'.file_operations = 0
              /\ resource_monitor'.network_operations = 0
              /\ resource_monitor'.limits = resource_monitor.limits
       /\ StopMonitoringStep =>
              execution_stats'.total_executions =
                  execution_stats.total_executions + 1]_vars

\* Two executions have been stopped, one of them with a violation, and a
\* third has been started with counters recorded in between.
C24_Witness ==
    /\ execution_stats.total_executions = 2
    /\ execution_stats.security_violations = 1
    /\ execution_stats.total_cpu_time > 0
    /\ mon_result.op = "start_monitoring"
    /\ clock > 0

(***************************************************************************)
(* Claims about the communication bus.                                     *)
(***************************************************************************)
\* C7: send_request returns a successful response only if the response's
\* request_id is the correlation id generated for that call, and a response
\* with a different request_id never resolves the call's waiter.
C7_OnlyOwnResponse ==
    \A sender \in BusPlugins :
        /\ calls[sender].rx.state = "value" =>
                calls[sender].rx.response = calls[sender].request_id
        /\ (calls[sender].pc = "done" /\ calls[sender].result = "ok") =>
                calls[sender].response = calls[sender].request_id

\* A send_request has returned after a response for another request was
\* handled during its flight, while the other sender's request, the one
\* that response was for, was in flight as well.
C7_Witness ==
    \E s1 \in BusPlugins, s2 \in BusPlugins :
        /\ s1 # s2
        /\ calls[s1].pc = "done"
        /\ calls[s1].foreign
        /\ calls[s2].pc \in {"delivered", "done"}
        /\ calls[s2].answered

\* C8: if handle_response is called with the call's correlation id while
\* the call is in flight, send_request returns that response, not the
\* channel-closed or the timeout error.
C8_AnsweredReturnsResponse ==
    \A sender \in BusPlugins :
        (calls[sender].pc = "done" /\ calls[sender].answered) =>
            /\ calls[sender].result = "ok"
            /\ calls[sender].response = calls[sender].request_id

\* A step that is a call of broadcast_message(sender, ..).
BroadcastStep(sender) == \E ty \in MessageTypes : BroadcastMessage(sender, ty)

IsSubscribed(p) ==
    \E i \in 1..Len(broadcast_subscribers) : broadcast_subscribers[i] = p

\* C14: broadcast_message(sender, ..) enqueues exactly one copy on the
\* channel of every registered subscriber except the sender, and nothing on
\* the sender's channel or on the channel of a plugin that is not subscribed.
C14_BroadcastFanout ==
    [][\A sender \in BusPlugins :
          BroadcastStep(sender) =>
              \A p \in DOMAIN channels :
                  IF p # sender /\ IsSubscribed(p)
                  THEN /\ Len(channels'[p]) = Len(channels[p]) + 1
                       /\ SubSeq(channels'[p], 1, Len(channels[p])) = channels[p]
                       /\ channels'[p][Len(channels'[p])].sender = sender
                  ELSE channels'[p] = channels[p]]_vars

\* A step that is a call of send_message(sender, recipient, ..).
SendStep(sender, recipient) ==
    /\ bus_result'.op = "send_message"
    /\ bus_result'.recipient = recipient
    /\ \E ty \in MessageTypes : SendMessage(sender, recipient, ty)

IsRouteDestination(sender, recipient) ==
    \E i \in 1..Len(routes[sender]) : routes[sender][i] = recipient

\* C15: when routes have been configured for a sender, a send_message from
\* that sender to a recipient outside its current route destinations is not
\* delivered to that recipient.
C15_RoutesRestrict ==
    [][\A sender \in BusPlugins, recipient \in BusPlugins :
          (/\ SendStep(sender, recipient)
           /\ sender \in DOMAIN routes
           /\ ~IsRouteDestination(sender, recipient)
           /\ recipient \in DOMAIN channels)
              => channels'[recipient] = channels[recipient]]_vars

\* C16: send_message to a recipient that is not registered returns success
\* and leaves the queue of every registered channel unchanged.
C16_UnknownRecipient ==
    [][\A sender \in BusPlugins, recipient \in BusPlugins :
          (SendStep(sender, recipient) /\ recipient \notin DOMAIN channels)
              => (bus_result'.result = "ok" /\ channels' = channels)]_vars

\* send_message has just returned for a recipient that is not registered,
\* while another plugin is.
C16_Witness ==
    /\ bus_result.op = "send_message"
    /\ bus_result.result = "ok"
    /\ bus_result.recipient \notin DOMAIN channels
    /\ DOMAIN channels # {}

\* No route has p as its source or as one of its destinations.
NoRouteNames(rts, p) ==
    /\ p \notin DOMAIN rts
    /\ \A q \in DOMAIN rts : \A i \in 1..Len(rts[q]) : rts[q][i] # p

\* A step that takes the channel of p out of the map: unregister_plugin(p)
\* for a registered p.
UnregisterStep(p) == p \in DOMAIN channels /\ p \notin DOMAIN channels'

\* A step that is a call of add_route with p as one of its ends.
AddRouteStep(p) == \E q \in BusPlugins : AddRoute(p, q) \/ AddRoute(q, p)

\* C33 as stated: after unregister_plugin(p), get_receiver(p) fails with
\* NotFound, no route has p as source or destination, and no message sent
\* or broadcast afterwards is enqueued for p, until p is registered again.
C33_GoneUntilRegistered ==
    [][\A p \in BusPlugins :
          /\ UnregisterStep(p) => NoRouteNames(routes', p)
          /\ (p \notin DOMAIN channels /\ ~RegisterPlugin(p)) =>
                 /\ p \notin DOMAIN channels'
                 /\ NoRouteNames(routes, p) => NoRouteNames(routes', p)]_vars

\* C33, with the routes put right: after unregister_plugin(p) no route has
\* p as source or destination; until p is registered again there is no
\* channel for p, so that get_receiver(p) fails with NotFound and nothing
\* sent or broadcast is enqueued for p; and p stays out of the routes until
\* an add_route call names it.
C33_GoneUntilRegisteredOrRouted ==
    [][\A p \in BusPlugins :
          /\ UnregisterStep(p) => NoRouteNames(routes', p)
          /\ (p \notin DOMAIN channels /\ ~RegisterPlugin(p)) =>
                 /\ p \notin DOMAIN channels'
                 /\ (NoRouteNames(routes, p) /\ ~AddRouteStep(p))
                        => NoRouteNames(routes', p)]_vars

\* send_message to p has just returned after p was unregistered: the route
\* of the other plugin, which is still registered, has lost its destination.
C33_Witness ==
    \E p \in BusPlugins, q \in BusPlugins :
        /\ p \notin DOMAIN channels
        /\ q \in DOMAIN channels
        /\ NoRouteNames(routes, p)
        /\ q \in DOMAIN routes /\ routes[q] = <<>>
        /\ bus_result = [op |-> "send_message", recipient |-> p, result |-> "ok"]

C39_UnregisterUnsubscribes ==
    [][\A p \in BusPlugins : UnregisterStep(p) => ~IsSubscribed(p)']_vars


(***************************************************************************)
(* Claims about the manager.                                               *)
(***************************************************************************)
\* C17: a plugin id is never silently shadowed: a load_plugin with an id
\* that is already loaded either leaves the existing plugin in place or has
\* the existing plugin cleaned up before the new one is installed.
C17_NeverShadowed ==
    [][\A t \in MgTasks :
          (LoadPluginInsert(t) /\ mg_task[t].id \in DOMAIN plugins) =>
              \/ plugins'[mg_task[t].id] = plugins[mg_task[t].id]
              \/ plugins[mg_task[t].id] \in cleaned']_vars

(***************************************************************************)
(* Claims about the plugins and the core PluginManager.                    *)
(***************************************************************************)
\* C32: for every plugin reported by health_check_all, the status is
\* derived from current state: Unhealthy if the plugin has not been
\* successfully initialized, otherwise Degraded if its failed calls exceed
\* its successful calls, otherwise Healthy.
C32_HealthDerived ==
    pl_result.op = "health_check" =>
        pl_result.status =
            IF ~wasm_plugin.ready THEN "Unhealthy"
            ELSE IF wasm_plugin.failed_calls > wasm_plugin.successful_calls
            THEN "Degraded"
            ELSE "Healthy"

\* A step that is an execute call on the example plugin.
ExampleExecuteStep ==
    /\ wasm_plugin.kind = "ExampleWasmPlugin"
    /\ pl_result'.op = "execute"
    /\ \E function \in PluginFunctions, input \in PluginInputs :
           PluginExecute(function, input)

\* C40: for the example plugin, every execute call made after initialize is
\* counted exactly once, as a success if it returns a result and as a
\* failure if it returns an error, so that total_calls = successful_calls +
\* failed_calls = number of execute calls; an execute call before
\* initialize or after cleanup fails and changes no counter.
C40_CountedOnce ==
    /\ [](wasm_plugin.kind = "ExampleWasmPlugin" =>
             /\ wasm_plugin.total_calls = wasm_plugin.executed
             /\ wasm_plugin.successful_calls = wasm_plugin.returned_ok
             /\ wasm_plugin.failed_calls = wasm_plugin.returned_err
             /\ wasm_plugin.total_calls
                    = wasm_plugin.successful_calls + wasm_plugin.failed_calls)
    /\ [][(ExampleExecuteStep /\ ~wasm_plugin.initialized) =>
              /\ pl_result'.result # "ok"
              /\ wasm_plugin' = wasm_plugin]_vars

\* C34: the core PluginManager is deadlock-free: under any interleaving of
\* concurrent register_plugin, unregister_plugin, unload_all, update_config,
\* get_active_plugins and health_check_all calls, every call eventually
\* acquires its locks and returns.
C34_EveryCallReturns ==
    \A t \in CoreTasks : core_task[t].pc # "idle" ~> core_task[t].pc = "idle"
====
